---- MODULE Spec2Model ----
(***************************************************************************)
(* Model of the code-review endpoint of kodewalibai: the POST handler of   *)
(* src/app/api/review/route.js (second listing in src/unnamed/part_000)    *)
(* with its helpers scanForSecurityIssues, lintCode, getAIReview,          *)
(* guessFileExtension and processRepositoryFiles, and the repository       *)
(* collector of src/src/utils/githubProcessor.js.                          *)
(*                                                                         *)
(* Strings are sequences of atoms.  An atom is a fixed piece of text that  *)
(* is written here as the text itself; the string a sequence stands for is *)
(* the concatenation of its atoms.  The atoms are chosen so that no marker *)
(* of guessFileExtension and no match of a security pattern spans two      *)
(* atoms, hence String.includes is membership of a marker in the marker    *)
(* set of some atom and matchAll is the per-atom match count in order.     *)
(***************************************************************************)
EXTENDS Integers, Sequences, FiniteSets, TLC

\* ------------------------------------------------------------------ bounds

\* Longest snippet, in atoms, that a request carries.
MaxLen == 2
\* Most file entries of a cloned repository tree.
MaxTree == 4

\* ------------------------------------------------------------------ helpers

RECURSIVE SeqsUpTo(_, _)
SeqsUpTo(S, n) ==
  IF n = 0 THEN {<<>>}
  ELSE LET shorter == SeqsUpTo(S, n - 1)
       IN shorter \cup {Append(s, x) : s \in {t \in shorter : Len(t) = n - 1}, x \in S}

Range(s) == {s[i] : i \in DOMAIN s}

\* F(v), the value v being computed once however often F uses it.
Once(v, F(_)) == CHOOSE r \in {F(x) : x \in {v}} : TRUE

\* ------------------------------------------------------------------ atoms

\* Atoms of code snippets and of repository files.
CodeAtoms ==
  {"import React;", "// tsx", "function f(){}", "<html>", "@import 'a.css';",
   "def f():", "eval(x);", "db.exec(req.body);", "el.innerHTML = s;",
   "os.system(c)", "apiKey = 'k1'", "\n"}

\* Atoms of repository references.
UrlAtoms ==
  {"https://", "github.com", "example.com", "/", "owner", "repo", "not-github"}

\* The markers guessFileExtension and POST look for that atom a contains.
AtomMarkers(a) ==
  CASE a = "import React;"    -> {"import React", "import ", ";"}
    [] a = "// tsx"           -> {"tsx"}
    [] a = "function f(){}"   -> {"function", "{}"}
    [] a = "<html>"           -> {"<html>"}
    [] a = "@import 'a.css';" -> {"@import", "import ", ";"}
    [] a = "def f():"         -> {"def "}
    [] a = "eval(x);"         -> {";"}
    [] a = "db.exec(req.body);" -> {";"}
    [] a = "el.innerHTML = s;"  -> {";"}
    [] a = "github.com"       -> {"github.com"}
    [] OTHER                  -> {}

\* String.prototype.includes(marker) on a string of atoms.
Includes(str, marker) == \E i \in DOMAIN str : marker \in AtomMarkers(str[i])

\* JavaScript values a request can carry as `content`: nothing, a number, a
\* string (its atoms), or an array (its elements, themselves such values).
Str(atoms) == [kind |-> "string", atoms |-> atoms, num |-> 0, elems |-> <<>>]
Num(n) == [kind |-> "number", atoms |-> <<>>, num |-> n, elems |-> <<>>]
Absent == [kind |-> "absent", atoms |-> <<>>, num |-> 0, elems |-> <<>>]
Arr(elems) == [kind |-> "array", atoms |-> <<>>, num |-> 0, elems |-> elems]

\* Strings and arrays have an `includes` method; on the other values calling
\* it throws a TypeError.
HasIncludes(value) == value.kind \in {"string", "array"}

\* Array.prototype.includes(marker): some element is the string `marker`.
ArrayIncludes(elems, marker) == \E i \in DOMAIN elems : elems[i] = Str(<<marker>>)

\* value.includes(marker) for a string or an array.
HasMarker(value, marker) ==
  IF value.kind = "array" THEN ArrayIncludes(value.elems, marker)
  ELSE Includes(value.atoms, marker)

\* String(n) for the numbers of the model.
NumText(n) == IF n = 0 THEN "0" ELSE "7"

RECURSIVE JoinComma(_)
\* String(value) for the values new URL is handed: a string is itself, an
\* array is its elements joined by ",".
ToText(value) ==
  IF value.kind = "string" THEN value.atoms
  ELSE IF value.kind = "number" THEN <<NumText(value.num)>>
  ELSE IF value.kind = "array" THEN JoinComma(value.elems)
  ELSE <<>>

JoinComma(elems) ==
  IF elems = <<>> THEN <<>>
  ELSE IF Len(elems) = 1 THEN ToText(Head(elems))
  ELSE ToText(Head(elems)) \o <<",">> \o JoinComma(Tail(elems))

\* ------------------------------------------------------------------ securityPatterns

AllScript == {"js", "jsx", "ts", "tsx"}

\* The catalog, in source order.  `re` is the source text of the pattern.
securityPatterns ==
  << [re |-> "eval\\s*\\(", title |-> "Dangerous use of eval()",
      languages |-> AllScript \cup {"py"}],
     [re |-> "document\\.write\\s*\\(", title |-> "Insecure DOM manipulation",
      languages |-> AllScript],
     [re |-> "innerHTML\\s*=", title |-> "Potential XSS vulnerability",
      languages |-> AllScript],
     [re |-> "localStorage\\s*\\.\\s*setItem\\s*\\(", title |-> "Sensitive data storage",
      languages |-> AllScript],
     [re |-> "password|token|secret|key", title |-> "Potential hardcoded credentials",
      languages |-> AllScript \cup {"py"}],
     [re |-> "\\.exec\\s*\\(\\s*req\\.body|\\.exec\\s*\\(\\s*req\\.query",
      title |-> "SQL Injection risk", languages |-> AllScript],
     [re |-> "http:", title |-> "Insecure HTTP protocol",
      languages |-> AllScript \cup {"py"}],
     [re |-> "apiKey\\s*=\\s*[\"']*[^\"']+", title |-> "Hardcoded API keys",
      languages |-> AllScript \cup {"py"}],
     [re |-> "exec\\s*\\(", title |-> "Dangerous use of exec()", languages |-> {"py"}],
     [re |-> "input\\s*\\(", title |-> "Unsafe input usage", languages |-> {"py"}],
     [re |-> "os\\.system\\s*\\(", title |-> "Dangerous system command execution",
      languages |-> {"py"}],
     [re |-> "subprocess\\.call\\s*\\(", title |-> "Unsafe subprocess execution",
      languages |-> {"py"}],
     [re |-> "pickle\\.load", title |-> "Unsafe deserialization", languages |-> {"py"}] >>

\* Number of matches of pattern number r of the catalog inside atom a.
MatchCount(r, a) ==
  CASE r = 1 /\ a = "eval(x);"            -> 1
    [] r = 3 /\ a = "el.innerHTML = s;"   -> 1
    [] r = 5 /\ a = "apiKey = 'k1'"       -> 1
    [] r = 6 /\ a = "db.exec(req.body);"  -> 1
    [] r = 8 /\ a = "apiKey = 'k1'"       -> 1
    [] r = 9 /\ a = "db.exec(req.body);"  -> 1
    [] r = 11 /\ a = "os.system(c)"       -> 1
    [] OTHER                              -> 0

\* fileExt.replace(".", "")
StripDot(fileExt) ==
  CASE fileExt = ".js" -> "js" [] fileExt = ".jsx" -> "jsx" [] fileExt = ".ts" -> "ts"
    [] fileExt = ".tsx" -> "tsx" [] fileExt = ".py" -> "py" [] fileExt = ".html" -> "html"
    [] fileExt = ".css" -> "css" [] fileExt = ".md" -> "md" [] OTHER -> fileExt

\* Mutant: the newlines before the match, without the one added.
LineNumberZeroBased(code, i) == Cardinality({j \in 1..(i - 1) : code[j] = "\n"})

\* code.substring(0, index).split("\n").length for a match inside atom i.
LineNumber(code, i) == Cardinality({j \in 1..(i - 1) : code[j] = "\n"}) + 1

\* Mutant: the language test of line 607 dropped.
PatternNeverSkipped(pattern, fileType) == FALSE

\* Mutant: the negation of line 607 lost, a pattern is skipped for its own
\* languages.
PatternSkippedInverted(pattern, fileType) ==
  "languages" \in DOMAIN pattern /\ fileType \in pattern.languages

\* Skip test of scanForSecurityIssues: a pattern without `languages` applies to
\* every file type.
PatternSkipped(pattern, fileType) ==
  "languages" \in DOMAIN pattern /\ fileType \notin pattern.languages

RECURSIVE Repeat(_, _)
Repeat(x, n) == IF n = 0 THEN <<>> ELSE <<x>> \o Repeat(x, n - 1)

RECURSIVE MatchAll(_, _, _)
\* [...code.matchAll(pattern)] from atom i on: the atom index of each match.
MatchAll(code, r, i) ==
  IF i > Len(code) THEN <<>>
  ELSE Repeat(i, MatchCount(r, code[i])) \o MatchAll(code, r, i + 1)

\* Mutant: one issue per pattern that matched, for its first match.
IssuesOfFirstMatch(code, pattern, matches) ==
  IF matches = <<>> THEN <<>>
  ELSE << [title |-> pattern.title,
           location |-> <<"Line", LineNumber(code, Head(matches))>>] >>

RECURSIVE IssuesOfMatches(_, _, _)
IssuesOfMatches(code, pattern, matches) ==
  IF matches = <<>> THEN <<>>
  ELSE << [title |-> pattern.title,
           location |-> <<"Line", LineNumber(code, Head(matches))>>] >>
       \o IssuesOfMatches(code, pattern, Tail(matches))

\* The lastIndex of the RegExp object of each pattern of the catalog, counted
\* in atoms: the part of the process-wide catalog a match can write.
VARIABLE lastIndex

\* The atom of the first match of pattern r after the cursor, 0 when there is
\* none.
FirstMatchFrom(code, r, cursor) ==
  IF MatchAll(code, r, cursor + 1) = <<>> THEN 0 ELSE Head(MatchAll(code, r, cursor + 1))

\* Mutant: each applicable pattern is tried with pattern.test(code) on the
\* catalog's own RegExp, which moves its lastIndex behind the first match.
LastIndexAfterTest(cursor, code, fileType) ==
  [r \in DOMAIN securityPatterns |->
     IF PatternSkipped(securityPatterns[r], fileType) THEN cursor[r]
     ELSE FirstMatchFrom(code, r, cursor[r])]

\* Line 611: code.matchAll(pattern.pattern) matches with a copy of the RegExp
\* that starts at the lastIndex of the original and leaves the original alone.
LastIndexAfterScan(cursor, code, fileType) == cursor

RECURSIVE ScanFrom(_, _, _)
ScanFrom(code, fileType, r) ==
  IF r > Len(securityPatterns) THEN <<>>
  ELSE (IF PatternSkipped(securityPatterns[r], fileType) THEN <<>>
        ELSE IssuesOfMatches(code, securityPatterns[r],
                             MatchAll(code, r, lastIndex[r] + 1)))
       \o ScanFrom(code, fileType, r + 1)

scanForSecurityIssues(code, fileExt) == ScanFrom(code, StripDot(fileExt), 1)

\* ------------------------------------------------------------------ guessFileExtension

\* Mutant: the Python check moved in front of the JavaScript check.
guessFileExtensionPythonFirst(code) ==
  IF \/ HasMarker(code, "import React")
     \/ (HasMarker(code, "class") /\ HasMarker(code, "extends React.Component"))
     \/ HasMarker(code, "ReactDOM.render")
  THEN (IF HasMarker(code, "tsx") THEN ".tsx" ELSE ".jsx")
  ELSE IF HasMarker(code, "def ") \/ HasMarker(code, "import ") \/ HasMarker(code, "class ")
  THEN ".py"
  ELSE IF \/ HasMarker(code, "function") \/ HasMarker(code, "=>")
          \/ HasMarker(code, "const") \/ HasMarker(code, "let") \/ HasMarker(code, "var")
  THEN ".js"
  ELSE IF HasMarker(code, "<!DOCTYPE html>") \/ HasMarker(code, "<html>")
  THEN ".html"
  ELSE IF HasMarker(code, "@import") \/ (HasMarker(code, "{}") /\ HasMarker(code, ";"))
  THEN ".css"
  ELSE ".js"

\* guessFileExtension(code), lines 707-748; code is a string or an array.
guessFileExtension(code) ==
  IF \/ HasMarker(code, "import React")
     \/ (HasMarker(code, "class") /\ HasMarker(code, "extends React.Component"))
     \/ HasMarker(code, "ReactDOM.render")
  THEN (IF HasMarker(code, "tsx") THEN ".tsx" ELSE ".jsx")
  ELSE IF \/ HasMarker(code, "function") \/ HasMarker(code, "=>")
          \/ HasMarker(code, "const") \/ HasMarker(code, "let") \/ HasMarker(code, "var")
  THEN ".js"
  ELSE IF HasMarker(code, "<!DOCTYPE html>") \/ HasMarker(code, "<html>")
  THEN ".html"
  ELSE IF HasMarker(code, "@import") \/ (HasMarker(code, "{}") /\ HasMarker(code, ";"))
  THEN ".css"
  ELSE IF HasMarker(code, "def ") \/ HasMarker(code, "import ") \/ HasMarker(code, "class ")
  THEN ".py"
  ELSE ".js"

\* ------------------------------------------------------------------ lintCode

\* Messages the Linter can report (results[0].messages), as ESLint shapes them.
MissingSemi ==
  [line |-> 1, column |-> 9, severity |-> 2, message |-> "Missing semicolon.",
   ruleId |-> "semi"]

UnexpectedConsole ==
  [line |-> 1, column |-> 11, severity |-> 1,
   message |-> "Unexpected console statement.", ruleId |-> "no-console"]

\* The message lists the Linter reports for a file: none, one message, or
\* two messages of different severities.
LinterReports ==
  {<<>>, <<MissingSemi>>, <<MissingSemi, UnexpectedConsole>>}

\* The mapping of lines 680-686.
FormatMessage(message) ==
  [line |-> message.line, column |-> message.column,
   severity |-> IF message.severity = 2 THEN "error" ELSE "warning",
   message |-> message.message, ruleId |-> message.ruleId]

FormatMessages(messages) == [i \in DOMAIN messages |-> FormatMessage(messages[i])]

\* writeFile(tempFile, code), line 669, takes a string, or an array (an
\* iterable) whose every element is a chunk Buffer.from takes: a string, or an
\* array, which is written as bytes.  A number as element makes it reject.
WriteFileAccepts(code) ==
  \/ code.kind = "string"
  \/ code.kind = "array"
       /\ \A i \in DOMAIN code.elems : code.elems[i].kind \in {"string", "array"}

\* Mutant: the catch of lines 692-703 cleans up and rethrows.
lintCodeRethrow(code, ext, env) ==
  IF env.fs = "mkdirFail"
  THEN [threw |-> TRUE, issues |-> <<>>, created |-> FALSE, left |-> FALSE,
        linted |-> FALSE]
  ELSE IF env.fs = "writeFail" \/ ~WriteFileAccepts(code)
  THEN [threw |-> TRUE, issues |-> <<>>, created |-> TRUE, left |-> TRUE,
        linted |-> FALSE]
  ELSE IF env.linter = "throw"
  THEN [threw |-> TRUE, issues |-> <<>>, created |-> TRUE, left |-> env.rm # "ok",
        linted |-> TRUE]
  ELSE IF env.rm # "ok"
  THEN [threw |-> TRUE, issues |-> <<>>, created |-> TRUE, left |-> env.rm = "fail",
        linted |-> TRUE]
  ELSE [threw |-> FALSE, issues |-> FormatMessages(env.messages), created |-> TRUE,
        left |-> FALSE, linted |-> TRUE]

\* One call of lintCode(code, ext).  threw: the call rejects; issues: what it
\* returns; created: the temporary directory was made; left: it still exists
\* when the call ends; linted: eslint.lintFiles was reached.
\* After the Linter threw, the catch removes the directory (line 697) and a
\* removal that rejects is logged (line 698): the directory stays.  After the
\* Linter reported, the removal of line 689 is inside the try: when it rejects
\* the catch of line 692 takes over, the messages are dropped, the removal is
\* tried once more (line 697) and [] is returned.
lintCode(code, ext, env) ==
  IF env.fs = "mkdirFail"
  THEN [threw |-> TRUE, issues |-> <<>>, created |-> FALSE, left |-> FALSE,
        linted |-> FALSE]
  ELSE IF env.fs = "writeFail" \/ ~WriteFileAccepts(code)
  THEN [threw |-> TRUE, issues |-> <<>>, created |-> TRUE, left |-> TRUE,
        linted |-> FALSE]
  ELSE IF env.linter = "throw"
  THEN [threw |-> FALSE, issues |-> <<>>, created |-> TRUE, left |-> env.rm # "ok",
        linted |-> TRUE]
  ELSE IF env.rm # "ok"
  THEN [threw |-> FALSE, issues |-> <<>>, created |-> TRUE, left |-> env.rm = "fail",
        linted |-> TRUE]
  ELSE [threw |-> FALSE, issues |-> FormatMessages(env.messages), created |-> TRUE,
        left |-> FALSE, linted |-> TRUE]

\* ------------------------------------------------------------------ getAIReview

AdvisorEnvs == {"ok", "fail"}

\* Mutant: the catch answers with an apology text.
getAIReviewApology(code, env) ==
  IF env = "ok" THEN "review" ELSE "Unable to perform AI review at this time."

\* The completion text on success, "" when the call to the Advisor throws.
getAIReview(code, env) == IF env = "ok" THEN "review" ELSE ""

\* ------------------------------------------------------------------ githubProcessor

RECURSIVE Pieces(_)
\* The text of a reference cut where new URL and split("/") cut it: the atom
\* "https://" is the word "https", a colon and two slashes; every other atom
\* is one piece.
Pieces(url) ==
  IF url = <<>> THEN <<>>
  ELSE (IF Head(url) = "https://" THEN <<"https", ":", "/", "/">> ELSE <<Head(url)>>)
       \o Pieces(Tail(url))

\* The position of the first piece of s equal to x, Len(s) + 1 when there is
\* none.
FirstOf(s, x) ==
  IF \E i \in DOMAIN s : s[i] = x
  THEN CHOOSE i \in DOMAIN s : s[i] = x /\ \A j \in 1..(i - 1) : s[j] # x
  ELSE Len(s) + 1

RECURSIVE SkipSlashes(_)
\* The pieces after the leading "/" pieces.
SkipSlashes(s) ==
  IF s # <<>> /\ Head(s) = "/" THEN SkipSlashes(Tail(s)) ELSE s

\* A piece that can stand in a URL scheme, and one that can start it.
SchemePiece(x) == x \notin {"/", ":", ","}
SchemeStart(x) == SchemePiece(x) /\ x \notin {"0", "7"}

UrlFailure == [ok |-> FALSE, hostname |-> <<>>, pathname |-> <<>>]

\* new URL(url), line 11, on the text `url`.  The scheme is what stands before
\* the first colon; without one the constructor throws.  After "https:" every
\* slash in front of the host is skipped and an empty host throws; after any
\* other scheme exactly the two slashes of the atom are taken and the host may
\* be empty.  The host ends at the next slash, a colon ends it earlier (the
\* port, here always empty); pathname is the rest, "/" when https has none.
NewURL(url) ==
  Once(Pieces(url),
       LAMBDA pieces :
         LET colon == FirstOf(pieces, ":")
             scheme == SubSeq(pieces, 1, colon - 1)
             special == scheme = <<"https">>
             after == SubSeq(pieces, colon + 1, Len(pieces))
         IN Once(IF special THEN SkipSlashes(after) ELSE SubSeq(after, 3, Len(after)),
                 LAMBDA rest :
                   LET slash == FirstOf(rest, "/")
                       authority == SubSeq(rest, 1, slash - 1)
                       path == SubSeq(rest, slash, Len(rest))
                   IN IF colon > Len(pieces) \/ scheme = <<>> THEN UrlFailure
                      ELSE IF \/ ~SchemeStart(scheme[1])
                              \/ \E i \in DOMAIN scheme : ~SchemePiece(scheme[i])
                      THEN UrlFailure
                      ELSE IF special /\ authority = <<>> THEN UrlFailure
                      ELSE [ok |-> TRUE,
                            hostname |->
                              SubSeq(authority, 1, FirstOf(authority, ":") - 1),
                            pathname |->
                              IF special /\ path = <<>> THEN <<"/">> ELSE path]))

RECURSIVE SplitSlash(_, _)
\* pathname.split("/").filter(Boolean): the non-empty runs between "/" pieces,
\* cur being the run under construction.
SplitSlash(pathname, cur) ==
  IF pathname = <<>> THEN (IF cur = <<>> THEN <<>> ELSE <<cur>>)
  ELSE IF Head(pathname) = "/"
  THEN (IF cur = <<>> THEN <<>> ELSE <<cur>>) \o SplitSlash(Tail(pathname), <<>>)
  ELSE SplitSlash(Tail(pathname), Append(cur, Head(pathname)))

\* ok = FALSE: parseGitHubUrl throws "Invalid GitHub URL: ...".  owner and repo
\* are the first two runs of the pathname, each the pieces it is made of.
parseGitHubUrl(url) ==
  Once(NewURL(url),
       LAMBDA parsed :
         LET parts == SplitSlash(parsed.pathname, <<>>)
         IN IF ~parsed.ok THEN [ok |-> FALSE, owner |-> <<>>, repo |-> <<>>]
            ELSE IF ~Includes(parsed.hostname, "github.com")
            THEN [ok |-> FALSE, owner |-> <<>>, repo |-> <<>>]
            ELSE IF Len(parts) < 2 THEN [ok |-> FALSE, owner |-> <<>>, repo |-> <<>>]
            ELSE [ok |-> TRUE, owner |-> parts[1], repo |-> parts[2]])

\* Files a repository can hold, as paths from its root, in the order readdir
\* lists them: the names of a directory by character code, capitals before
\* small letters (a directory's entries are listed where its first file
\* stands).
RepoUniverse ==
  << <<"README.md">>, <<"a.py">>, <<"b.js">>, <<"e.py">>, <<"node_modules", "d.js">>,
     <<"src", "C.JSX">>, <<"src", "build", "g.js">> >>

RepoFileContent(p) ==
  CASE p = <<"a.py">>               -> <<"os.system(c)">>
    [] p = <<"b.js">>               -> <<"el.innerHTML = s;">>
    [] p = <<"e.py">>               -> <<"def f():">>
    [] p = <<"node_modules", "d.js">> -> <<"eval(x);">>
    [] p = <<"src", "C.JSX">>       ->
         <<"el.innerHTML = s;", "\n", "el.innerHTML = s;", "db.exec(req.body);", "\n",
           "apiKey = 'k1'">>
    [] OTHER                        -> <<"eval(x);">>

RECURSIVE SubSeqsOf(_)
\* Every subsequence of s, order kept.
SubSeqsOf(s) ==
  IF s = <<>> THEN {<<>>}
  ELSE LET rest == SubSeqsOf(Tail(s))
       IN rest \cup {<<Head(s)>> \o t : t \in rest}

\* The trees a clone can materialise.
RepoTrees == {t \in SubSeqsOf(RepoUniverse) : Len(t) <= MaxTree}

\* path.extname(name)
ExtName(name) ==
  CASE name = "a.py" -> ".py" [] name = "b.js" -> ".js" [] name = "d.js" -> ".js"
    [] name = "e.py" -> ".py" [] name = "g.js" -> ".js"
    [] name = "C.JSX" -> ".JSX" [] name = "README.md" -> ".md" [] OTHER -> ""

\* String.prototype.toLowerCase on an extension.
ToLowerCase(ext) == IF ext = ".JSX" THEN ".jsx" ELSE ext

ExcludedDirs ==
  {"node_modules", ".git", "dist", "build", "out", ".next", "coverage",
   "__pycache__", "venv", "env", ".venv"}

DefaultExtensions == {".js", ".jsx", ".py"}

IsPrefix(d, p) == Len(d) <= Len(p) /\ SubSeq(p, 1, Len(d)) = d

RECURSIVE EntriesFrom(_, _, _, _)
\* readdir(currentDir): the names directly under dir, each once, in tree order.
EntriesFrom(tree, dir, i, seen) ==
  IF i > Len(tree) THEN <<>>
  ELSE IF IsPrefix(dir, tree[i]) /\ Len(tree[i]) > Len(dir)
          /\ tree[i][Len(dir) + 1] \notin seen
  THEN <<tree[i][Len(dir) + 1]>>
       \o EntriesFrom(tree, dir, i + 1, seen \cup {tree[i][Len(dir) + 1]})
  ELSE EntriesFrom(tree, dir, i + 1, seen)

\* entry.isDirectory()
IsDirectory(tree, dir, name) ==
  \E i \in DOMAIN tree : IsPrefix(Append(dir, name), tree[i])
                         /\ Len(tree[i]) > Len(dir) + 1

\* Mutant: no directory is skipped.
SkippedDirectoryNever(name) == FALSE

\* Lines 67-81: the directory's name is in the list.
SkippedDirectory(name) == name \in ExcludedDirs

RECURSIVE ScanEntries(_, _, _, _)
RECURSIVE scanDirectory(_, _, _)
scanDirectory(tree, currentDir, extensions) ==
  Once(EntriesFrom(tree, currentDir, 1, {}),
       LAMBDA entries : ScanEntries(tree, currentDir, entries, extensions))

ScanEntries(tree, currentDir, entries, extensions) ==
  IF entries = <<>> THEN <<>>
  ELSE LET name == Head(entries)
           fullPath == Append(currentDir, name)
           here == IF IsDirectory(tree, currentDir, name)
                   THEN (IF ~SkippedDirectory(name)
                         THEN scanDirectory(tree, fullPath, extensions) ELSE <<>>)
                   ELSE (IF ToLowerCase(ExtName(name)) \in extensions
                         THEN <<fullPath>> ELSE <<>>)
       IN here \o ScanEntries(tree, currentDir, Tail(entries), extensions)

RECURSIVE ReaddirEntries(_, _, _)
RECURSIVE ReaddirCalls(_, _)
\* The directories readdir (line 60) is called on, in call order: currentDir,
\* then those of the scanDirectory calls of line 82.
ReaddirCalls(tree, currentDir) ==
  Once(EntriesFrom(tree, currentDir, 1, {}),
       LAMBDA entries : <<currentDir>> \o ReaddirEntries(tree, currentDir, entries))

ReaddirEntries(tree, currentDir, entries) ==
  IF entries = <<>> THEN <<>>
  ELSE LET name == Head(entries)
           here == IF IsDirectory(tree, currentDir, name) /\ ~SkippedDirectory(name)
                   THEN ReaddirCalls(tree, Append(currentDir, name)) ELSE <<>>
       IN here \o ReaddirEntries(tree, currentDir, Tail(entries))

\* The readdir calls of getCodeFiles(dir).
WalkedDirs(tree, dir) ==
  Once([i \in DOMAIN tree |-> dir \o tree[i]], LAMBDA full : ReaddirCalls(full, dir))

\* getCodeFiles(dir): full paths, the clone directory first.
getCodeFiles(tree, dir) ==
  Once([i \in DOMAIN tree |-> dir \o tree[i]],
       LAMBDA full : scanDirectory(full, dir, DefaultExtensions))

\* path.relative(repoDir, filePath)
Relative(repoDir, filePath) == SubSeq(filePath, Len(repoDir) + 1, Len(filePath))

\* The clone directory: tmpdir()/github-owner-repo-uuid.
RepoDir == <<"tmp">>

\* fileContents[relativePath] = content, keys in insertion order.
PutFile(fileContents, relativePath, content) ==
  IF \E i \in DOMAIN fileContents : fileContents[i].filePath = relativePath
  THEN [i \in DOMAIN fileContents |->
          IF fileContents[i].filePath = relativePath
          THEN [filePath |-> relativePath, content |-> content] ELSE fileContents[i]]
  ELSE Append(fileContents, [filePath |-> relativePath, content |-> content])

RECURSIVE ReadFiles(_, _, _)
\* The loop of lines 107-116: a file that cannot be read is left out.
ReadFiles(codeFiles, unreadable, fileContents) ==
  IF codeFiles = <<>> THEN fileContents
  ELSE LET relativePath == Relative(RepoDir, Head(codeFiles))
       IN Once(IF relativePath \in unreadable THEN fileContents
               ELSE PutFile(fileContents, relativePath, RepoFileContent(relativePath)),
               LAMBDA read : ReadFiles(Tail(codeFiles), unreadable, read))

\* cloneRepository(url): threw, and whether the directory was made / is left.
\* When git.clone fails the catch removes the directory (line 46); a removal
\* that rejects is logged (lines 47-49) and the directory stays.
cloneRepository(url, env) ==
  IF ~parseGitHubUrl(url).ok
  THEN [threw |-> TRUE, created |-> FALSE, left |-> FALSE, cloned |-> FALSE]
  ELSE IF env.clone = "mkdirFail"
  THEN [threw |-> TRUE, created |-> FALSE, left |-> FALSE, cloned |-> FALSE]
  ELSE IF env.clone = "cloneFail"
  THEN [threw |-> TRUE, created |-> TRUE, left |-> env.rm = "fail", cloned |-> TRUE]
  ELSE [threw |-> FALSE, created |-> TRUE, left |-> TRUE, cloned |-> TRUE]

\* processRepository(url): threw, the collected files, and the clone directory's
\* fate: the finally block removes it whenever cloneRepository returned it
\* (line 125); a removal that rejects is logged (lines 126-128), the directory
\* stays and the result of the call is what it was.
processRepository(url, env) ==
  LET c == cloneRepository(url, env)
  IN IF c.threw
     THEN [threw |-> TRUE, files |-> <<>>, created |-> c.created, left |-> c.left,
           cloned |-> c.cloned]
     ELSE IF env.readdir = "fail"
     THEN [threw |-> TRUE, files |-> <<>>, created |-> TRUE, left |-> env.rm = "fail",
           cloned |-> TRUE]
     ELSE [threw |-> FALSE,
           files |-> Once(getCodeFiles(env.tree, RepoDir),
                          LAMBDA codeFiles : ReadFiles(codeFiles, env.unreadable, <<>>)),
           created |-> TRUE, left |-> env.rm = "fail", cloned |-> TRUE]

\* ------------------------------------------------------------------ requests

\* Atoms snippets are built from.
SnippetAtoms ==
  {"import React;", "// tsx", "function f(){}", "<html>", "@import 'a.css';",
   "def f():", "eval(x);", "db.exec(req.body);", "\n"}

\* Repository references: a well-formed one, one with a single path segment,
\* a foreign host, one without scheme, a foreign host with github.com in its
\* path, one without path, one with a third slash after the scheme, and one
\* whose first path segment is a scheme.
RepoRefs ==
  { <<"https://", "github.com", "/", "owner", "/", "repo">>,
    <<"https://", "github.com", "/", "owner">>,
    <<"https://", "example.com", "/", "not-github">>,
    <<"github.com", "/", "owner", "/", "repo">>,
    <<"https://", "example.com", "/", "github.com", "/", "repo">>,
    <<"https://", "github.com">>,
    <<"https://", "/", "github.com", "/", "owner", "/", "repo">>,
    <<"https://", "github.com", "/", "https://", "owner">> }

\* Arrays a request can carry: empty, of one string (a snippet, a markup
\* marker, the host name, a whole reference), of one number, of one array
\* (empty, or of one string), and of a string and an array.
ArrayContents ==
  {Arr(<<>>), Arr(<<Str(<<"eval(x);">>)>>), Arr(<<Str(<<"<html>">>)>>),
   Arr(<<Str(<<"github.com">>)>>),
   Arr(<<Str(<<"https://", "github.com", "/", "owner", "/", "repo">>)>>),
   Arr(<<Num(7)>>),
   Arr(<<Arr(<<>>)>>), Arr(<<Arr(<<Str(<<"eval(x);">>)>>)>>),
   Arr(<<Str(<<"eval(x);">>), Arr(<<Num(7)>>)>>)}

\* Values of the `content` field: absent, a number, a string, or an array.
Contents ==
  {Absent, Num(0), Num(7)}
  \cup {Str(a) : a \in SeqsUpTo(SnippetAtoms, MaxLen)}
  \cup {Str(a) : a \in RepoRefs}
  \cup ArrayContents

\* Request bodies: text that is not JSON, JSON null, a JSON value without
\* fields (a number, an array), or an object with `type` and `content`.
Requests ==
  {[body |-> b, type |-> "absent", content |-> Absent] :
      b \in {"malformed", "null", "primitive"}}
  \cup {[body |-> "object", type |-> t, content |-> c] :
          t \in {"code", "repo", "other", "absent"}, c \in Contents}

\* JavaScript truthiness of `content`.
Truthy(content) ==
  \/ content.kind = "string" /\ content.atoms # <<>>
  \/ content.kind = "number" /\ content.num # 0
  \/ content.kind = "array"

\* Mutant: line 838 testing content === undefined.
NoContentUndefinedOnly(content) == content.kind = "absent"

\* The test of line 838.
NoContent(content) == ~Truthy(content)

\* Mutant: line 849 letting .tsx through.
SnippetSupportedWithTsx(fileExt) == fileExt \in {".py", ".js", ".jsx", ".tsx"}

\* The test of line 849.
SnippetSupported(fileExt) == fileExt \in {".py", ".js", ".jsx"}

\* The test of line 881; content is a string or an array.
LooksLikeGitHub(content) == HasMarker(content, "github.com")

\* ------------------------------------------------------------------ responses

NoFields ==
  [error |-> "", lintIssues |-> <<>>, securityIssues |-> <<>>, aiReview |-> "null",
   repositoryUrl |-> <<>>, fileCount |-> 0, processedFiles |-> <<>>]

NoResponse == [status |-> 0, fields |-> {}, data |-> NoFields]

ErrorResponse(status, error) ==
  [status |-> status, fields |-> {"error"}, data |-> [NoFields EXCEPT !.error = error]]

\* Mutant: the catch of the repository path answers as for a bad request.
RepoCatchResponseBadRequest == ErrorResponse(400, "Error processing repository")

\* The catch of the repository path, lines 930-938.
RepoCatchResponse == ErrorResponse(500, "Error processing repository")

\* Mutant: the snippet answer carries fileCount: 1.
SnippetResponseWithFileCount(lintIssues, securityIssues, aiReview) ==
  [status |-> 200, fields |-> {"lintIssues", "securityIssues", "aiReview", "fileCount"},
   data |-> [NoFields EXCEPT !.lintIssues = lintIssues,
                             !.securityIssues = securityIssues,
                             !.aiReview = aiReview,
                             !.fileCount = 1]]

\* NextResponse.json of lines 862-866.
SnippetResponse(lintIssues, securityIssues, aiReview) ==
  [status |-> 200, fields |-> {"lintIssues", "securityIssues", "aiReview"},
   data |-> [NoFields EXCEPT !.lintIssues = lintIssues,
                             !.securityIssues = securityIssues,
                             !.aiReview = aiReview]]

\* Mutant: fileCount taken from the files that were processed.
RepoResponseProcessedCount(content, results, aiReview) ==
  [status |-> 200,
   fields |-> {"repositoryUrl", "fileCount", "processedFiles", "lintIssues",
               "securityIssues", "aiReview"},
   data |-> [NoFields EXCEPT !.repositoryUrl = content,
                             !.fileCount = Len(results.processedFiles),
                             !.processedFiles = results.processedFiles,
                             !.lintIssues = results.lintIssues,
                             !.securityIssues = results.securityIssues,
                             !.aiReview = aiReview]]

\* NextResponse.json of lines 922-929.
RepoResponse(content, results, aiReview) ==
  [status |-> 200,
   fields |-> {"repositoryUrl", "fileCount", "processedFiles", "lintIssues",
               "securityIssues", "aiReview"},
   data |-> [NoFields EXCEPT !.repositoryUrl = content,
                             !.fileCount = results.fileCount,
                             !.processedFiles = results.processedFiles,
                             !.lintIssues = results.lintIssues,
                             !.securityIssues = results.securityIssues,
                             !.aiReview = aiReview]]

\* ------------------------------------------------------------------ processRepositoryFiles

\* Line 611 on code that is no string: code.matchAll is not a function, thrown
\* at the first pattern that is not skipped.  On a string the scan has nothing
\* that throws.
MatchAllThrows(code, fileType) ==
  /\ code.kind # "string"
  /\ \E r \in DOMAIN securityPatterns : ~PatternSkipped(securityPatterns[r], fileType)

\* The results object of lines 754-759.
InitResults(files) ==
  [lintIssues |-> <<>>, securityIssues |-> <<>>, fileCount |-> Len(files),
   processedFiles |-> <<>>]

Last(s) == s[Len(s)]

\* path.extname(filePath).toLowerCase() of line 762.
FileExtOf(filePath) == ToLowerCase(ExtName(Last(filePath)))

Lintable(fileExt) == fileExt \in {".js", ".jsx", ".ts", ".tsx"}

\* Mutant: the push of line 797 moved out of the try, so it runs for every file.
PipelineCompletedAlways(doScan, scanThrew) == TRUE

\* Line 797 is reached: the scan was called and returned.
PipelineCompleted(doScan, scanThrew) == doScan /\ ~scanThrew

\* The body of one iteration of the loop of lines 761-804 on `file`, up to the
\* catch, env being what happened in its lintCode call.  lintCalls and
\* scanCalls are the calls the iteration made (none or one each); threw says
\* whether lintCode or the scan threw.  The content of a file is the string
\* readFile returned (githubProcessor.js line 109).
TryFile(results, file, env) ==
  LET filePath == file.filePath
      fileExt == FileExtOf(filePath)
      handled == fileExt \in {".js", ".jsx", ".ts", ".tsx", ".py"}
      doLint == handled /\ Lintable(fileExt)
  IN Once(lintCode(Str(file.content), fileExt, env), LAMBDA lint :
     LET lintThrew == doLint /\ lint.threw
         lintResult == IF doLint /\ ~lint.threw THEN lint.issues ELSE <<>>
         afterLint == IF lintResult # <<>>
                      THEN [results EXCEPT !.lintIssues =
                              Append(@, [filePath |-> filePath, issues |-> lintResult])]
                      ELSE results
         doScan == handled /\ ~lintThrew
         scanThrew == doScan /\ MatchAllThrows(Str(file.content), StripDot(fileExt))
     IN Once(IF doScan /\ ~scanThrew
             THEN scanForSecurityIssues(file.content, fileExt) ELSE <<>>,
             LAMBDA securityResult :
        LET afterScan == IF securityResult # <<>>
                         THEN [afterLint EXCEPT !.securityIssues =
                                 Append(@, [filePath |-> filePath,
                                            issues |-> securityResult])]
                         ELSE afterLint
            completed == PipelineCompleted(doScan, scanThrew)
        IN [results |-> IF completed
                        THEN [afterScan EXCEPT !.processedFiles = Append(@, filePath)]
                        ELSE afterScan,
            lintCalls |-> IF doLint
                          THEN << [filePath |-> filePath, ext |-> fileExt, env |-> env,
                                   threw |-> lint.threw, issues |-> lint.issues,
                                   linted |-> lint.linted, created |-> lint.created,
                                   left |-> lint.left] >>
                          ELSE <<>>,
            scanCalls |-> IF doScan
                          THEN << [filePath |-> filePath, ext |-> fileExt,
                                   code |-> file.content, threw |-> scanThrew,
                                   issues |-> securityResult] >>
                          ELSE <<>>,
            threw |-> lintThrew \/ scanThrew,
            propagated |-> FALSE]))

\* The iteration without its catch: what lintCode or the scan throws leaves
\* the loop.
AnalyzeFileNoCatch(results, file, env) ==
  [TryFile(results, file, env) EXCEPT !.propagated = TryFile(results, file, env).threw]

\* One iteration of the loop of lines 761-804: the catch of lines 798-800 logs
\* and swallows whatever the body throws.
AnalyzeFile(results, file, env) ==
  [TryFile(results, file, env) EXCEPT !.propagated = FALSE]

\* Mutant: the lint issues are tagged with the file's name, not its path.
TagLintBaseName(fileResult) ==
  [i \in DOMAIN fileResult.issues |->
     [line |-> fileResult.issues[i].line, column |-> fileResult.issues[i].column,
      severity |-> fileResult.issues[i].severity,
      message |-> fileResult.issues[i].message, ruleId |-> fileResult.issues[i].ruleId,
      filePath |-> <<Last(fileResult.filePath)>>]]

\* fileResult.issues.map(issue => ({...issue, filePath})) for lint issues.
TagLint(fileResult) ==
  [i \in DOMAIN fileResult.issues |->
     [line |-> fileResult.issues[i].line, column |-> fileResult.issues[i].column,
      severity |-> fileResult.issues[i].severity,
      message |-> fileResult.issues[i].message, ruleId |-> fileResult.issues[i].ruleId,
      filePath |-> fileResult.filePath]]

\* Mutant: the security issues keep their fields, the path is not copied.
TagSecurityUntagged(fileResult) ==
  [i \in DOMAIN fileResult.issues |->
     [title |-> fileResult.issues[i].title, location |-> fileResult.issues[i].location,
      filePath |-> <<>>]]

\* The same for security issues.
TagSecurity(fileResult) ==
  [i \in DOMAIN fileResult.issues |->
     [title |-> fileResult.issues[i].title, location |-> fileResult.issues[i].location,
      filePath |-> fileResult.filePath]]

RECURSIVE FlatMapLint(_)
\* results.lintIssues.flatMap of lines 807-812.
FlatMapLint(groups) ==
  IF groups = <<>> THEN <<>> ELSE TagLint(Head(groups)) \o FlatMapLint(Tail(groups))

RECURSIVE FlatMapSecurity(_)
\* results.securityIssues.flatMap of lines 815-820.
FlatMapSecurity(groups) ==
  IF groups = <<>> THEN <<>>
  ELSE TagSecurity(Head(groups)) \o FlatMapSecurity(Tail(groups))

\* Lines 806-823: the per-file groups flattened in order.
Flatten(results) ==
  [results EXCEPT !.lintIssues = FlatMapLint(results.lintIssues),
                  !.securityIssues = FlatMapSecurity(results.securityIssues)]

\* Lines 911-917: Object.entries(files).slice(0, 3), each file with its marker.
SampleSize == 3

\* Mutant: every collected file is sampled.
SampleFilesAll(files) == files

SampleFiles(files) == SubSeq(files, 1, IF Len(files) < SampleSize THEN Len(files) ELSE SampleSize)

RECURSIVE PathString(_)
\* A relative path as text: its segments with "/" between them.
PathString(p) ==
  IF Len(p) <= 1 THEN p ELSE <<Head(p), "/">> \o PathString(Tail(p))

\* Line 916: `// File: ${path}\n\n${content}`.
FileWithMarker(file) ==
  <<"// File: ">> \o PathString(file.filePath) \o <<"\n\n">> \o file.content

RECURSIVE CombinedContent(_)
\* Lines 915-917: the sampled files with their markers, joined by "\n\n".
CombinedContent(sampleFiles) ==
  IF sampleFiles = <<>> THEN <<>>
  ELSE IF Len(sampleFiles) = 1 THEN FileWithMarker(Head(sampleFiles))
  ELSE FileWithMarker(Head(sampleFiles)) \o <<"\n\n">>
       \o CombinedContent(Tail(sampleFiles))

\* ------------------------------------------------------------------ page.js

\* Mutant: the identifier is the line alone.
LintIdentifierLineOnly(item) == <<item.line>>

\* `${item.line}-${item.message}` of lines 114 and 116: the line number, a
\* hyphen, the message.
LintIdentifier(item) == <<item.line, "-", item.message>>

\* `${item.location}-${item.title}` of lines 126 and 128.
SecurityIdentifier(item) == item.location \o <<"-", item.title>>

\* Mutant: the new item is put in front of the ones kept so far.
KeepUniquePrepend(unique, item, duplicate) ==
  IF duplicate THEN unique ELSE <<item>> \o unique

\* Mutant: every item is kept.
KeepUniqueAll(unique, item, duplicate) == Append(unique, item)

\* The reducer's result, lines 115-119 and 127-131:
\* unique.some(...) ? unique : [...unique, item].
KeepUnique(unique, item, duplicate) ==
  IF duplicate THEN unique ELSE Append(unique, item)

RECURSIVE UniqueLintIssues(_, _)
\* data.lintIssues.reduce(..., []) of lines 113-120.
UniqueLintIssues(items, unique) ==
  IF items = <<>> THEN unique
  ELSE UniqueLintIssues(
         Tail(items),
         KeepUnique(unique, Head(items),
                    \E k \in DOMAIN unique :
                       LintIdentifier(unique[k]) = LintIdentifier(Head(items))))

RECURSIVE UniqueSecurityIssues(_, _)
\* data.securityIssues.reduce(..., []) of lines 124-134.
UniqueSecurityIssues(items, unique) ==
  IF items = <<>> THEN unique
  ELSE UniqueSecurityIssues(
         Tail(items),
         KeepUnique(unique, Head(items),
                    \E k \in DOMAIN unique :
                       SecurityIdentifier(unique[k]) = SecurityIdentifier(Head(items))))

\* ------------------------------------------------------------------ state

VARIABLES
  pc,          \* where the handler stands: "idle", "post", "files", "done", or
               \* the await it is suspended at: "mkdir", "writeFile",
               \* "lintFiles", "rm", "rmCatch" (lintCode), "advisor"
               \* (getAIReview),
               \* "cloneMkdir", "clone", "cloneRm" (cloneRepository),
               \* "readdir" (getCodeFiles), "readFile", "repoRm"
               \* (processRepository)
  request,     \* the request being answered
  response,    \* the response sent (status 0: none yet)
  files,       \* the files processRepository returned, in key order
  idx,         \* the next file of the loop of processRepositoryFiles
  results,     \* the results object of processRepositoryFiles
  repoEnv,     \* what git and the file system did for the processRepository
               \* call in progress
  ioIdx,       \* the readdir call or the readFile call being awaited
  classifyLog, \* the calls of guessFileExtension
  lintLog,     \* the calls of lintCode that have settled
  scanLog,     \* the calls of scanForSecurityIssues
  advisorLog,  \* the calls of getAIReview that have settled
  fetchLog,    \* the calls of processRepository that have settled
  lintDirs,    \* temporary directories of lintCode: made, and still there
  lintEnv,     \* what the file system and the Linter did for the lintCode
               \* call in progress
  cloneDirs,   \* clone directories: made, and still there
  client,      \* handleSubmit of the page: "idle" before the submit,
               \* "waiting" for fetch, "json" for response.json(), then
               \* "results" or "error"
  shown        \* the data handleSubmit passed to setResults

vars ==
  <<pc, request, response, files, idx, results, repoEnv, ioIdx, classifyLog, lintLog,
    scanLog, advisorLog, fetchLog, lintDirs, lintEnv, cloneDirs, client, shown,
    lastIndex>>

NoRequest == [body |-> "none", type |-> "absent", content |-> Absent]

\* What git and the file system did in one processRepository call: clone says
\* whether mkdir (line 36) or git.clone (line 40) failed, tree is what was
\* cloned, readdir whether a readdir failed (line 60), unreadable the files
\* whose readFile failed (line 109), and rm whether the removal of the clone
\* directory failed (line 46 or 125).
NoRepoEnv ==
  [clone |-> "none", tree |-> <<>>, readdir |-> "none", unreadable |-> {}, rm |-> "none"]

\* A processRepository call in which nothing has failed so far.
RepoStarted ==
  [clone |-> "ok", tree |-> <<>>, readdir |-> "ok", unreadable |-> {}, rm |-> "ok"]

\* What the file system and the Linter did in one lintCode call: fs says
\* whether mkdir (line 666) or writeFile (line 669) failed, linter whether the
\* Linter threw (lines 672-677), messages what it reported, and rm what the
\* removal of the temporary directory did: it succeeded, it failed at line 689
\* and succeeded in the catch (line 697, "failOnce"), or the last removal
\* tried failed.
NoLintEnv == [fs |-> "none", linter |-> "none", messages |-> <<>>, rm |-> "none"]

\* A lintCode call in which nothing has failed so far.
LintStarted == [fs |-> "ok", linter |-> "ok", messages |-> <<>>, rm |-> "ok"]

Init ==
  /\ pc = "idle"
  /\ request = NoRequest
  /\ response = NoResponse
  /\ files = <<>>
  /\ idx = 0
  /\ results = InitResults(<<>>)
  /\ repoEnv = NoRepoEnv
  /\ ioIdx = 0
  /\ classifyLog = <<>>
  /\ lintLog = <<>>
  /\ scanLog = <<>>
  /\ advisorLog = <<>>
  /\ fetchLog = <<>>
  /\ lintDirs = [made |-> 0, left |-> 0]
  /\ lintEnv = NoLintEnv
  /\ cloneDirs = [made |-> 0, left |-> 0]
  /\ client = "idle"
  /\ shown = NoFields
  /\ lastIndex = [r \in DOMAIN securityPatterns |-> 0]

clientVars == <<client, shown>>
repoVars == <<files, idx, results, repoEnv, ioIdx, fetchLog, cloneDirs>>
snippetVars == <<classifyLog>>
analysisVars == <<lintLog, scanLog, advisorLog, lintDirs, lintEnv, lastIndex>>

\* The catalog after the scan calls of one step.
CatalogAfter(scanCalls) ==
  IF scanCalls # <<>> /\ ~scanCalls[1].threw
  THEN LastIndexAfterScan(lastIndex, scanCalls[1].code, StripDot(scanCalls[1].ext))
  ELSE lastIndex

\* The handler returns `r`.
Respond(r) == /\ response' = r
              /\ pc' = "done"

\* The request fetch has sent arrives.
Receive ==
  /\ pc = "idle"
  /\ client = "waiting"
  /\ \E r \in Requests : request' = r
  /\ pc' = "post"
  /\ UNCHANGED <<response, repoVars, snippetVars, analysisVars>>
  /\ UNCHANGED clientVars

\* Lines 835-836 throw: request.json() rejects, or the body is null and cannot
\* be destructured.  The outer catch of lines 945-951 answers.
PostBadBody ==
  /\ pc = "post"
  /\ request.body \in {"malformed", "null"}
  /\ Respond(ErrorResponse(500, "Internal server error"))
  /\ UNCHANGED <<request, repoVars, snippetVars, analysisVars>>
  /\ UNCHANGED clientVars

Destructured == request.body \in {"object", "primitive"}

\* Lines 838-843.
PostNoContent ==
  /\ pc = "post"
  /\ Destructured
  /\ NoContent(request.content)
  /\ Respond(ErrorResponse(400, "No content provided"))
  /\ UNCHANGED <<request, repoVars, snippetVars, analysisVars>>
  /\ UNCHANGED clientVars

\* Lines 941-944.
PostInvalidType ==
  /\ pc = "post"
  /\ Destructured
  /\ ~NoContent(request.content)
  /\ request.type \notin {"code", "repo"}
  /\ Respond(ErrorResponse(400, "Invalid request type"))
  /\ UNCHANGED <<request, repoVars, snippetVars, analysisVars>>
  /\ UNCHANGED clientVars

\* Line 848 on content that is neither a string nor an array: content.includes
\* is not a function, the catch of lines 867-873 answers.
PostCodeNotString ==
  /\ pc = "post"
  /\ Destructured
  /\ ~NoContent(request.content)
  /\ request.type = "code"
  /\ ~HasIncludes(request.content)
  /\ classifyLog' = Append(classifyLog, [threw |-> TRUE, fileExt |-> ""])
  /\ Respond(ErrorResponse(500, "Failed to analyze code"))
  /\ UNCHANGED <<request, repoVars, analysisVars>>
  /\ UNCHANGED clientVars

\* Lines 848-857.
PostCodeUnsupported ==
  /\ pc = "post"
  /\ Destructured
  /\ ~NoContent(request.content)
  /\ request.type = "code"
  /\ HasIncludes(request.content)
  /\ LET fileExt == guessFileExtension(request.content)
     IN /\ ~SnippetSupported(fileExt)
        /\ classifyLog' = Append(classifyLog, [threw |-> FALSE, fileExt |-> fileExt])
        /\ Respond(ErrorResponse(400, "Unsupported file type"))
  /\ UNCHANGED <<request, repoVars, analysisVars>>
  /\ UNCHANGED clientVars

\* Lines 858-859 of the snippet path once lintCode has settled, env being what
\* happened in the call: the lintCode call, the scan when lintCode returned,
\* and whether either threw, which ends in the catch of lines 867-873.
AnalyzeSnippet(code, fileExt, env) ==
  LET lint == lintCode(code, fileExt, env)
      scanThrew == ~lint.threw /\ MatchAllThrows(code, StripDot(fileExt))
      securityIssues == IF ~lint.threw /\ ~scanThrew
                        THEN scanForSecurityIssues(code.atoms, fileExt) ELSE <<>>
  IN [lintCalls |-> << [filePath |-> <<>>, ext |-> fileExt, env |-> env,
                        threw |-> lint.threw, issues |-> lint.issues,
                        linted |-> lint.linted, created |-> lint.created,
                        left |-> lint.left] >>,
      scanCalls |-> IF lint.threw THEN <<>>
                    ELSE << [filePath |-> <<>>, ext |-> fileExt, code |-> code.atoms,
                             threw |-> scanThrew, issues |-> securityIssues] >>,
      failed |-> lint.threw \/ scanThrew]

\* Lines 848-858 up to the first await of lintCode (line 666): the snippet is
\* classified, its type is supported, lintCode is called and asks for its
\* temporary directory.
PostCodeAnalyze ==
  /\ pc = "post"
  /\ Destructured
  /\ ~NoContent(request.content)
  /\ request.type = "code"
  /\ HasIncludes(request.content)
  /\ LET fileExt == guessFileExtension(request.content)
     IN /\ SnippetSupported(fileExt)
        /\ classifyLog' = Append(classifyLog, [threw |-> FALSE, fileExt |-> fileExt])
  /\ pc' = "mkdir"
  /\ lintEnv' = LintStarted
  /\ UNCHANGED <<request, response, repoVars, lintLog, scanLog, advisorLog, lintDirs,
                 lastIndex>>
  /\ UNCHANGED clientVars

\* The arguments of the lintCode call in progress: the snippet (line 858) or
\* the file of the loop (line 771).
LintedCode == IF request.type = "code" THEN request.content ELSE Str(files[idx].content)

LintedExt ==
  IF request.type = "code" THEN classifyLog[Len(classifyLog)].fileExt
  ELSE FileExtOf(files[idx].filePath)

\* How an awaited promise settles.
Settled == {"resolve", "reject"}

\* The snippet path from the settling of lintCode (line 858) to the await of
\* getAIReview (lines 860 and 638): the scan, and the catch of lines 867-873
\* when lintCode rejected or the scan threw.
SnippetAfterLint(env) ==
  \E r \in {AnalyzeSnippet(request.content, LintedExt, env)} :
     /\ lintLog' = lintLog \o r.lintCalls
     /\ scanLog' = scanLog \o r.scanCalls
     /\ lastIndex' = CatalogAfter(r.scanCalls)
     /\ IF r.failed
        THEN Respond(ErrorResponse(500, "Failed to analyze code"))
        ELSE /\ pc' = "advisor"
             /\ UNCHANGED response
     /\ UNCHANGED <<results, idx, advisorLog>>

\* One iteration of the loop of lines 761-804 from the settling of its lintCode
\* call (line 771) on, or the whole iteration for a file that is not linted.
\* An exception that left the iteration would leave processRepositoryFiles and
\* reach the catch of lines 930-938.
FileAfterLint(env) ==
  \E r \in {AnalyzeFile(results, files[idx], env)} :
     /\ lintLog' = lintLog \o r.lintCalls
     /\ scanLog' = scanLog \o r.scanCalls
     /\ lastIndex' = CatalogAfter(r.scanCalls)
     /\ results' = r.results
     /\ IF r.propagated
        THEN /\ Respond(RepoCatchResponse)
             /\ UNCHANGED idx
        ELSE /\ idx' = idx + 1
             /\ pc' = "files"
             /\ UNCHANGED response
     /\ UNCHANGED advisorLog

\* The lintCode call in progress settles, env being what happened in it; its
\* caller goes on.
LintCodeSettles(env) ==
  /\ IF request.type = "code" THEN SnippetAfterLint(env) ELSE FileAfterLint(env)
  /\ lintEnv' = NoLintEnv

\* lintCode, line 666, mkdir settling: it resolves and the directory exists, or
\* it rejects and lintCode rejects with it.
LintMkdirOn(outcome) ==
  /\ pc = "mkdir"
  /\ IF outcome = "reject"
     THEN /\ LintCodeSettles([lintEnv EXCEPT !.fs = "mkdirFail"])
          /\ UNCHANGED lintDirs
     ELSE /\ lintDirs' = [made |-> lintDirs.made + 1, left |-> lintDirs.left + 1]
          /\ pc' = "writeFile"
          /\ UNCHANGED <<response, results, idx, lintLog, scanLog, advisorLog,
                         lastIndex, lintEnv>>
  /\ UNCHANGED <<request, files, repoEnv, ioIdx, fetchLog, cloneDirs, classifyLog>>
  /\ UNCHANGED clientVars

LintMkdir == \E outcome \in Settled : LintMkdirOn(outcome)

\* The ways writeFile(tempFile, code) can settle: data it does not take makes
\* it reject.
WriteFileOutcomes(code) == IF WriteFileAccepts(code) THEN Settled ELSE {"reject"}

\* lintCode, line 669, writeFile settling: it resolves, or it rejects (the
\* file system fails, or the data is not something writeFile takes) and
\* lintCode rejects with it, outside its try: the directory stays.
LintWriteFileOn(outcome) ==
  /\ pc = "writeFile"
  /\ outcome \in WriteFileOutcomes(LintedCode)
  /\ IF outcome = "reject"
     THEN LintCodeSettles([lintEnv EXCEPT !.fs = "writeFail"])
     ELSE /\ pc' = "lintFiles"
          /\ UNCHANGED <<response, results, idx, lintLog, scanLog, advisorLog,
                         lastIndex, lintEnv>>
  /\ UNCHANGED <<request, files, repoEnv, ioIdx, fetchLog, cloneDirs, classifyLog,
                 lintDirs>>
  /\ UNCHANGED clientVars

LintWriteFile == \E outcome \in Settled : LintWriteFileOn(outcome)

\* The ways eslint.lintFiles (lines 672-677) can settle: the Linter throws, or
\* it reports one of its message lists.
LintFilesOutcomes ==
  {[linter |-> "throw", messages |-> <<>>]}
  \cup {[linter |-> "ok", messages |-> m] : m \in LinterReports}

\* lintCode, line 677, eslint.lintFiles settling: it resolves with the messages
\* or rejects; either way lintCode asks for the removal of its directory (line
\* 689 or 697).
LintFilesOn(outcome) ==
  /\ pc = "lintFiles"
  /\ lintEnv' = [lintEnv EXCEPT !.linter = outcome.linter,
                                !.messages = outcome.messages]
  /\ pc' = "rm"
  /\ UNCHANGED <<request, response, repoVars, snippetVars, lintLog, scanLog, advisorLog,
                 lintDirs, lastIndex>>
  /\ UNCHANGED clientVars

LintFiles == \E outcome \in LintFilesOutcomes : LintFilesOn(outcome)

\* lintCode, the removal that follows eslint.lintFiles, settling: line 689
\* when the Linter reported, line 697 when it threw.  rm resolves, the
\* directory is gone and lintCode returns; or it rejects: after line 689 the
\* catch of line 692 asks for the removal once more, after line 697 the
\* rejection is logged and lintCode returns with the directory left.
LintRmOn(outcome) ==
  /\ pc = "rm"
  /\ IF outcome = "resolve"
     THEN /\ lintDirs' = [lintDirs EXCEPT !.left = @ - 1]
          /\ LintCodeSettles(lintEnv)
     ELSE IF lintEnv.linter = "ok"
     THEN /\ pc' = "rmCatch"
          /\ lintEnv' = [lintEnv EXCEPT !.rm = "failOnce"]
          /\ UNCHANGED <<response, results, idx, lintLog, scanLog, advisorLog,
                         lastIndex, lintDirs>>
     ELSE /\ LintCodeSettles([lintEnv EXCEPT !.rm = "fail"])
          /\ UNCHANGED lintDirs
  /\ UNCHANGED <<request, files, repoEnv, ioIdx, fetchLog, cloneDirs, classifyLog>>
  /\ UNCHANGED clientVars

LintRm == \E outcome \in Settled : LintRmOn(outcome)

\* lintCode, line 697 after the removal of line 689 rejected, settling: rm
\* resolves and the directory is gone, or it rejects, which is logged (line
\* 698), and the directory is left; either way lintCode returns [] (line 702).
LintRmCatchOn(outcome) ==
  /\ pc = "rmCatch"
  /\ IF outcome = "resolve"
     THEN /\ lintDirs' = [lintDirs EXCEPT !.left = @ - 1]
          /\ LintCodeSettles(lintEnv)
     ELSE /\ LintCodeSettles([lintEnv EXCEPT !.rm = "fail"])
          /\ UNCHANGED lintDirs
  /\ UNCHANGED <<request, files, repoEnv, ioIdx, fetchLog, cloneDirs, classifyLog>>
  /\ UNCHANGED clientVars

LintRmCatch == \E outcome \in Settled : LintRmCatchOn(outcome)

\* getAIReview, line 638, settling: the completion resolves or rejects, getAIReview
\* returns and the handler answers (lines 862-866 or 922-929).
AdvisorAnswersOn(advisor) ==
  /\ pc = "advisor"
  /\ IF request.type = "code"
     THEN LET code == request.content.atoms
          IN /\ advisorLog' =
                  Append(advisorLog,
                         [input |-> << [filePath |-> <<>>, content |-> code] >>,
                          text |-> code, env |-> advisor])
             /\ Respond(SnippetResponse(lintLog[Len(lintLog)].issues,
                                        scanLog[Len(scanLog)].issues,
                                        getAIReview(code, advisor)))
     ELSE LET sampleFiles == SampleFiles(files)
          IN /\ advisorLog' =
                  Append(advisorLog,
                         [input |-> sampleFiles,
                          text |-> CombinedContent(sampleFiles), env |-> advisor])
             /\ Respond(RepoResponse(request.content.atoms, results,
                                     getAIReview(CombinedContent(sampleFiles),
                                                 advisor)))
  /\ UNCHANGED <<request, repoVars, snippetVars, lintLog, scanLog, lintDirs, lintEnv,
                 lastIndex>>
  /\ UNCHANGED clientVars

AdvisorAnswers == \E advisor \in AdvisorEnvs : AdvisorAnswersOn(advisor)

\* Line 881 on content that is neither a string nor an array: the catch of
\* lines 930-938 answers.
PostRepoNotString ==
  /\ pc = "post"
  /\ Destructured
  /\ ~NoContent(request.content)
  /\ request.type = "repo"
  /\ ~HasIncludes(request.content)
  /\ Respond(RepoCatchResponse)
  /\ UNCHANGED <<request, repoVars, snippetVars, analysisVars>>
  /\ UNCHANGED clientVars

\* Lines 881-889.
PostRepoNotGitHub ==
  /\ pc = "post"
  /\ Destructured
  /\ ~NoContent(request.content)
  /\ request.type = "repo"
  /\ HasIncludes(request.content)
  /\ ~LooksLikeGitHub(request.content)
  /\ Respond(ErrorResponse(400, "Invalid GitHub URL"))
  /\ UNCHANGED <<request, repoVars, snippetVars, analysisVars>>
  /\ UNCHANGED clientVars

NoFilesFoundNever(collected) == FALSE

\* Line 896: Object.keys(files).length === 0.
NoFilesFound(collected) == Len(collected) = 0

\* The reference processRepository is called with, as new URL reads it.
RepoUrl == ToText(request.content)

\* Lines 891-903 from the settling of processRepository on, env being what
\* happened in the call: the catch of lines 930-938 when it rejected, else the
\* empty test, else the start of processRepositoryFiles (lines 751-759).
RepositorySettles(result, env) ==
  \E r \in {result} :
    /\ fetchLog' = Append(fetchLog,
                          [url |-> RepoUrl, threw |-> r.threw, cloned |-> r.cloned,
                           files |-> r.files,
                           walked |-> IF r.threw THEN <<>>
                                      ELSE WalkedDirs(env.tree, RepoDir)])
    /\ IF r.threw
       THEN /\ Respond(RepoCatchResponse)
            /\ UNCHANGED <<files, idx, results>>
       ELSE IF NoFilesFound(r.files)
       THEN /\ Respond(ErrorResponse(404, "No JavaScript or Python files found"))
            /\ UNCHANGED <<files, idx, results>>
       ELSE /\ files' = r.files
            /\ idx' = 1
            /\ results' = InitResults(r.files)
            /\ pc' = "files"
            /\ UNCHANGED response

\* Lines 881-891 up to the first await of cloneRepository (line 36 of
\* githubProcessor.js): the reference passes the test of line 881,
\* processRepository is called and parseGitHubUrl reads the reference; when it
\* throws, processRepository rejects at once, else the clone directory is asked
\* for.
PostRepoCollect ==
  /\ pc = "post"
  /\ Destructured
  /\ ~NoContent(request.content)
  /\ request.type = "repo"
  /\ HasIncludes(request.content)
  /\ LooksLikeGitHub(request.content)
  /\ IF parseGitHubUrl(RepoUrl).ok
     THEN /\ pc' = "cloneMkdir"
          /\ repoEnv' = RepoStarted
          /\ UNCHANGED <<response, files, idx, results, fetchLog>>
     ELSE /\ RepositorySettles(processRepository(RepoUrl, RepoStarted), RepoStarted)
          /\ UNCHANGED repoEnv
  /\ UNCHANGED <<request, ioIdx, cloneDirs, snippetVars, analysisVars>>
  /\ UNCHANGED clientVars

\* cloneRepository, line 36, mkdir settling: it resolves and the clone
\* directory exists, or it rejects and the catch asks for the removal (line
\* 46).
CloneMkdirOn(outcome) ==
  /\ pc = "cloneMkdir"
  /\ \E env \in {[repoEnv EXCEPT !.clone = IF outcome = "reject" THEN "mkdirFail"
                                            ELSE "ok"]} :
       /\ repoEnv' = env
       /\ IF cloneRepository(RepoUrl, env).created
          THEN /\ cloneDirs' = [made |-> cloneDirs.made + 1, left |-> cloneDirs.left + 1]
               /\ pc' = "clone"
          ELSE /\ pc' = "cloneRm"
               /\ UNCHANGED cloneDirs
  /\ UNCHANGED <<request, response, files, idx, results, ioIdx, fetchLog, snippetVars,
                 analysisVars>>
  /\ UNCHANGED clientVars

CloneMkdir == \E outcome \in Settled : CloneMkdirOn(outcome)

\* The ways git.clone (line 40) can settle: it fails, or it has materialised
\* one of the trees.
GitCloneOutcomes ==
  {[clone |-> "cloneFail", tree |-> <<>>]}
  \cup {[clone |-> "ok", tree |-> t] : t \in RepoTrees}

\* cloneRepository, line 40, git.clone settling: it resolves, the tree is in
\* the directory, cloneRepository returns and getCodeFiles reads the directory
\* (line 60); or it rejects and the catch asks for the removal (line 46).
GitCloneOn(outcome) ==
  /\ pc = "clone"
  /\ repoEnv' = [repoEnv EXCEPT !.clone = outcome.clone, !.tree = outcome.tree]
  /\ IF outcome.clone = "cloneFail"
     THEN /\ pc' = "cloneRm"
          /\ UNCHANGED ioIdx
     ELSE /\ pc' = "readdir"
          /\ ioIdx' = 1
  /\ UNCHANGED <<request, response, files, idx, results, fetchLog, cloneDirs, snippetVars,
                 analysisVars>>
  /\ UNCHANGED clientVars

GitClone == \E outcome \in GitCloneOutcomes : GitCloneOn(outcome)

\* cloneRepository, lines 46-51, rm settling: it resolves and the directory is
\* gone, or it rejects, which is logged, and the directory is left;
\* cloneRepository throws and processRepository rejects (its finally block has
\* no directory to remove).  After a failed mkdir there is no directory to
\* remove or to leave.
CloneRmOn(outcome) ==
  /\ pc = "cloneRm"
  /\ \E env \in {IF outcome = "reject" THEN [repoEnv EXCEPT !.rm = "fail"]
                  ELSE repoEnv} :
       /\ repoEnv' = NoRepoEnv
       /\ \E c \in {cloneRepository(RepoUrl, env)} :
            cloneDirs' = [cloneDirs EXCEPT
                            !.left = IF c.created /\ ~c.left THEN @ - 1 ELSE @]
       /\ RepositorySettles(processRepository(RepoUrl, env), env)
  /\ UNCHANGED <<request, ioIdx, snippetVars, analysisVars>>
  /\ UNCHANGED clientVars

CloneRm == \E outcome \in Settled : CloneRmOn(outcome)

\* getCodeFiles, line 60, the readdir of one directory settling: it resolves,
\* and the next directory is read (line 82) or, after the last one,
\* getCodeFiles returns and the first file is read (line 109), or the removal
\* is asked for when there is none (line 125); or it rejects and
\* processRepository goes to its finally block.
ReaddirOn(outcome) ==
  /\ pc = "readdir"
  /\ IF outcome = "reject"
     THEN /\ repoEnv' = [repoEnv EXCEPT !.readdir = "fail"]
          /\ pc' = "repoRm"
          /\ UNCHANGED ioIdx
     ELSE /\ UNCHANGED repoEnv
          /\ IF ioIdx < Len(WalkedDirs(repoEnv.tree, RepoDir))
             THEN /\ ioIdx' = ioIdx + 1
                  /\ UNCHANGED pc
             ELSE /\ ioIdx' = 1
                  /\ pc' = IF getCodeFiles(repoEnv.tree, RepoDir) = <<>>
                           THEN "repoRm" ELSE "readFile"
  /\ UNCHANGED <<request, response, files, idx, results, fetchLog, cloneDirs, snippetVars,
                 analysisVars>>
  /\ UNCHANGED clientVars

Readdir == \E outcome \in Settled : ReaddirOn(outcome)

\* processRepository, line 109, the readFile of one collected file settling:
\* it resolves or rejects (the file is then left out, lines 113-115), and the
\* next file is read or, after the last one, the finally block asks for the
\* removal.
ReadFileOn(outcome) ==
  /\ pc = "readFile"
  /\ \E codeFiles \in {getCodeFiles(repoEnv.tree, RepoDir)} :
        /\ repoEnv' = IF outcome = "reject"
                      THEN [repoEnv EXCEPT
                              !.unreadable = @ \cup {Relative(RepoDir, codeFiles[ioIdx])}]
                      ELSE repoEnv
        /\ IF ioIdx < Len(codeFiles)
           THEN /\ ioIdx' = ioIdx + 1
                /\ UNCHANGED pc
           ELSE /\ ioIdx' = ioIdx
                /\ pc' = "repoRm"
  /\ UNCHANGED <<request, response, files, idx, results, fetchLog, cloneDirs, snippetVars,
                 analysisVars>>
  /\ UNCHANGED clientVars

ReadFile == \E outcome \in Settled : ReadFileOn(outcome)

\* processRepository, line 125, rm settling: it resolves and the clone
\* directory is gone, or it rejects, which is logged (lines 126-128), and the
\* directory is left; processRepository returns the files or rejects with the
\* error of line 120.
RepoRmOn(outcome) ==
  /\ pc = "repoRm"
  /\ \E env \in {IF outcome = "reject" THEN [repoEnv EXCEPT !.rm = "fail"]
                  ELSE repoEnv} :
       /\ repoEnv' = NoRepoEnv
       /\ \E r \in {processRepository(RepoUrl, env)} :
            /\ cloneDirs' = [cloneDirs EXCEPT !.left = IF r.left THEN @ ELSE @ - 1]
            /\ RepositorySettles(r, env)
  /\ UNCHANGED <<request, ioIdx, snippetVars, analysisVars>>
  /\ UNCHANGED clientVars

RepoRm == \E outcome \in Settled : RepoRmOn(outcome)

\* The loop of lines 761-804 at its next file: a file that is linted calls
\* lintCode, which asks for its temporary directory (line 666); the iteration
\* of any other file has no await and runs to its end.
ProcessFile ==
  /\ pc = "files"
  /\ idx <= Len(files)
  /\ IF Lintable(FileExtOf(files[idx].filePath))
     THEN /\ pc' = "mkdir"
          /\ lintEnv' = LintStarted
          /\ UNCHANGED <<response, results, idx, lintLog, scanLog, advisorLog, lastIndex>>
     ELSE /\ FileAfterLint(LintStarted)
          /\ UNCHANGED lintEnv
  /\ UNCHANGED <<request, files, repoEnv, ioIdx, fetchLog, cloneDirs, classifyLog,
                 lintDirs>>
  /\ UNCHANGED clientVars

\* Lines 806-829 and 909-919: after the last file the groups are flattened and
\* getAIReview is called on the sample, which awaits the completion (line
\* 638); with no sample the handler answers at once.
PostRepoFinish ==
  /\ pc = "files"
  /\ idx > Len(files)
  /\ results' = Flatten(results)
  /\ IF Len(SampleFiles(files)) > 0
     THEN /\ pc' = "advisor"
          /\ UNCHANGED response
     ELSE Respond(RepoResponse(request.content.atoms, Flatten(results), "null"))
  /\ UNCHANGED <<request, files, idx, repoEnv, ioIdx, fetchLog, cloneDirs, classifyLog>>
  /\ UNCHANGED analysisVars
  /\ UNCHANGED clientVars

\* handleSubmit, lines 83-88, with nothing entered: the error is set and no
\* request is made.
HandleSubmitEmpty ==
  /\ client = "idle"
  /\ client' = "error"
  /\ UNCHANGED <<pc, request, response, shown, repoVars, snippetVars, analysisVars>>

\* handleSubmit, lines 90-103, with an input: fetch is called and awaited.
HandleSubmitFetch ==
  /\ client = "idle"
  /\ client' = "waiting"
  /\ UNCHANGED <<pc, request, response, shown, repoVars, snippetVars, analysisVars>>

\* handleSubmit, lines 94 and 137-138: fetch rejects (the request or the
\* response is lost on the way, whatever the handler does meanwhile); the
\* error is set and no results are.
HandleSubmitFetchRejects ==
  /\ client = "waiting"
  /\ client' = "error"
  /\ UNCHANGED <<pc, request, response, shown, repoVars, snippetVars, analysisVars>>

\* response.ok of line 105: a status of 200 to 299.
ResponseOk(r) == r.status >= 200 /\ r.status <= 299

\* handleSubmit, lines 94-111, fetch resolving with a response that is ok:
\* response.json() is awaited.
HandleSubmitOk ==
  /\ pc = "done"
  /\ client = "waiting"
  /\ ResponseOk(response)
  /\ client' = "json"
  /\ UNCHANGED <<pc, request, response, shown, repoVars, snippetVars, analysisVars>>

\* handleSubmit, lines 111-136, response.json() resolving: both lists are
\* reduced to their unique items and the data is passed to setResults.
HandleSubmitResults ==
  /\ client = "json"
  /\ shown' = [response.data EXCEPT
                 !.lintIssues = UniqueLintIssues(response.data.lintIssues, <<>>),
                 !.securityIssues =
                    UniqueSecurityIssues(response.data.securityIssues, <<>>)]
  /\ client' = "results"
  /\ UNCHANGED <<pc, request, response, repoVars, snippetVars, analysisVars>>

\* handleSubmit, lines 111 and 137-138, response.json() rejecting: the error
\* is set and no results are.
HandleSubmitJsonRejects ==
  /\ client = "json"
  /\ client' = "error"
  /\ UNCHANGED <<pc, request, response, shown, repoVars, snippetVars, analysisVars>>

\* handleSubmit, lines 94-109 and 137-138, fetch resolving with a response
\* that is not ok: the error is set and no results are.
HandleSubmitError ==
  /\ pc = "done"
  /\ client = "waiting"
  /\ ~ResponseOk(response)
  /\ client' = "error"
  /\ UNCHANGED <<pc, request, response, shown, repoVars, snippetVars, analysisVars>>

Next ==
  \/ Receive
  \/ PostBadBody
  \/ PostNoContent
  \/ PostInvalidType
  \/ PostCodeNotString
  \/ PostCodeUnsupported
  \/ PostCodeAnalyze
  \/ LintMkdir
  \/ LintWriteFile
  \/ LintFiles
  \/ LintRm
  \/ LintRmCatch
  \/ AdvisorAnswers
  \/ PostRepoNotString
  \/ PostRepoNotGitHub
  \/ PostRepoCollect
  \/ CloneMkdir
  \/ GitClone
  \/ CloneRm
  \/ Readdir
  \/ ReadFile
  \/ RepoRm
  \/ ProcessFile
  \/ PostRepoFinish
  \/ HandleSubmitEmpty
  \/ HandleSubmitFetch
  \/ HandleSubmitFetchRejects
  \/ HandleSubmitOk
  \/ HandleSubmitResults
  \/ HandleSubmitJsonRejects
  \/ HandleSubmitError

Spec == Init /\ [][Next]_vars

\* A step of the POST handler.
HandlerStep ==
  \/ PostBadBody
  \/ PostNoContent
  \/ PostInvalidType
  \/ PostCodeNotString
  \/ PostCodeUnsupported
  \/ PostCodeAnalyze
  \/ LintMkdir
  \/ LintWriteFile
  \/ LintFiles
  \/ LintRm
  \/ LintRmCatch
  \/ AdvisorAnswers
  \/ PostRepoNotString
  \/ PostRepoNotGitHub
  \/ PostRepoCollect
  \/ CloneMkdir
  \/ GitClone
  \/ CloneRm
  \/ Readdir
  \/ ReadFile
  \/ RepoRm
  \/ ProcessFile
  \/ PostRepoFinish

\* ------------------------------------------------------------------ properties

Done == pc = "done"

\* The handler is in processRepositoryFiles or past it: in the loop, suspended
\* in the lintCode call of a file, or waiting for the Advisor.
Analysing ==
  pc \in {"files", "mkdir", "writeFile", "lintFiles", "rm", "rmCatch", "advisor"}

\* The handler is suspended in processRepository after the clone directory was
\* asked for.
Collecting == pc \in {"cloneMkdir", "clone", "cloneRm", "readdir", "readFile", "repoRm"}

\* The repository path got past collection with at least one file.
Collected == files # <<>>

CollectedPaths == {files[j].filePath : j \in DOMAIN files}

LintCalled(p) == \E i \in DOMAIN lintLog : lintLog[i].filePath = p
LintThrew(p) == \E i \in DOMAIN lintLog : lintLog[i].filePath = p /\ lintLog[i].threw
LintReturned(p) == \E i \in DOMAIN lintLog : lintLog[i].filePath = p /\ ~lintLog[i].threw
ScanCalled(p) == \E i \in DOMAIN scanLog : scanLog[i].filePath = p
ScanThrew(p) == \E i \in DOMAIN scanLog : scanLog[i].filePath = p /\ scanLog[i].threw
ScanReturned(p) == \E i \in DOMAIN scanLog : scanLog[i].filePath = p /\ ~scanLog[i].threw

FileThrew(p) == LintThrew(p) \/ ScanThrew(p)

\* The file was linted when lintable, and scanned unless its own lint threw.
FileAttempted(p) ==
  /\ Lintable(FileExtOf(p)) => LintCalled(p)
  /\ ScanCalled(p) \/ LintThrew(p)

\* The file's pipeline ran to its end: lint (when lintable) and scan returned.
FileCompleted(p) ==
  /\ Lintable(FileExtOf(p)) => LintReturned(p)
  /\ ScanReturned(p)

\* C1: an exception thrown while linting or scanning one collected file never
\* aborts the batch: once files are collected the handler is in the loop (or
\* suspended in it, or waiting for the Advisor) or has answered 200 after the
\* last file, and every file after a failed one was linted (when lintable) and
\* scanned.
C1_FileFailureNeverAbortsBatch ==
  Collected =>
    /\ Analysing \/ Done
    /\ Done => response.status = 200 /\ idx = Len(files) + 1
    /\ \A i \in 1..(idx - 1) :
         FileThrew(files[i].filePath) =>
           \A j \in (i + 1)..(idx - 1) : FileAttempted(files[j].filePath)

C1_Witness ==
  /\ Done /\ Collected /\ response.status = 200
  /\ \E i, j \in DOMAIN files :
       /\ i < j
       /\ FileThrew(files[i].filePath)
       /\ LintCalled(files[j].filePath)
       /\ ScanCalled(files[j].filePath)

\* C2: processedFiles holds exactly the collected files whose pipeline ran to
\* completion without throwing (whatever they found), each once, and the
\* report carries that list.
C2_ProcessedFilesAreTheCompletedFiles ==
  Collected =>
    LET pf == results.processedFiles
    IN /\ \A p \in CollectedPaths \cup Range(pf) :
            p \in Range(pf) <=>
              \E j \in 1..(idx - 1) : files[j].filePath = p /\ FileCompleted(p)
       /\ Range(pf) \subseteq CollectedPaths
       /\ Cardinality(Range(pf)) = Len(pf)
       /\ Done => response.data.processedFiles = pf

NoFindingsFor(p) ==
  /\ \A k \in DOMAIN response.data.lintIssues : response.data.lintIssues[k].filePath # p
  /\ \A k \in DOMAIN response.data.securityIssues :
       response.data.securityIssues[k].filePath # p

C2_Witness ==
  /\ Done /\ Collected /\ response.status = 200
  /\ \E p, q \in CollectedPaths :
       /\ p \in Range(response.data.processedFiles) /\ NoFindingsFor(p)
       /\ FileThrew(q) /\ q \notin Range(response.data.processedFiles)

\* C3: fileCount is the number of files the collector returned, whatever
\* happened per file, so it is never below the size of processedFiles.
C3_FileCountIsCollectedCount ==
  /\ Collected => /\ results.fileCount = Len(files)
                  /\ results.fileCount >= Len(results.processedFiles)
  /\ (Done /\ "fileCount" \in response.fields) =>
       /\ response.data.fileCount = Len(fetchLog[1].files)
       /\ response.data.fileCount >= Len(response.data.processedFiles)

C3_Witness ==
  /\ Done /\ "fileCount" \in response.fields
  /\ response.data.fileCount = 3
  /\ Len(response.data.processedFiles) = 1

\* Some catalog rule with this title applies to the file type.
RuleApplies(title, fileType) ==
  \E r \in DOMAIN securityPatterns :
    /\ securityPatterns[r].title = title
    /\ "languages" \in DOMAIN securityPatterns[r] => fileType \in securityPatterns[r].languages

\* C4: every finding of a scan, and every security issue of a report, comes from
\* a catalog rule that applies to the language of the file it was found in.
C4_FindingsOnlyFromApplicableRules ==
  /\ \A i \in DOMAIN scanLog : \A k \in DOMAIN scanLog[i].issues :
       RuleApplies(scanLog[i].issues[k].title, StripDot(scanLog[i].ext))
  /\ (Done /\ response.status = 200) =>
       \A k \in DOMAIN response.data.securityIssues :
         RuleApplies(response.data.securityIssues[k].title,
                     IF "fileCount" \in response.fields
                     THEN StripDot(FileExtOf(response.data.securityIssues[k].filePath))
                     ELSE StripDot(classifyLog[1].fileExt))

\* A script snippet that holds text the Python-only exec rule matches too.
C4_Witness ==
  /\ Done /\ response.status = 200 /\ request.type = "code"
  /\ classifyLog[1].fileExt = ".js"
  /\ "db.exec(req.body);" \in Range(request.content.atoms)
  /\ response.data.securityIssues # <<>>

LinterFailed(call) == call.env.fs = "ok" /\ call.env.linter = "throw"
LinterFailedFor(p) ==
  \E i \in DOMAIN lintLog : lintLog[i].filePath = p /\ LinterFailed(lintLog[i])

\* The lint issues the report gives for path p.
ReportedLintFor(p) == SelectSeq(response.data.lintIssues, LAMBDA x : x.filePath = p)

\* C5: a Linter that throws makes lintCode return no diagnostics and throw
\* nothing.  In a batch the file has no lint issues, is scanned and (its scan
\* returning) is in processedFiles, and every file whose own lintCode returned
\* Linter messages (its directory removed at the first attempt) has exactly
\* those in the report; a snippet whose scan returns is answered 200 with no
\* lint issues.
C5_LinterFailureYieldsNoDiagnostics ==
  /\ \A i \in DOMAIN lintLog :
       LinterFailed(lintLog[i]) => ~lintLog[i].threw /\ lintLog[i].issues = <<>>
  /\ Collected =>
       \A j \in 1..(idx - 1) :
         LET p == files[j].filePath
         IN LinterFailedFor(p) =>
              /\ \A k \in DOMAIN results.lintIssues : results.lintIssues[k].filePath # p
              /\ ScanCalled(p)
              /\ ScanReturned(p) => p \in Range(results.processedFiles)
  /\ (Done /\ Collected /\ \E p \in CollectedPaths : LinterFailedFor(p)) =>
       /\ response.status = 200
       /\ \A i \in DOMAIN lintLog :
            (~lintLog[i].threw /\ ~LinterFailed(lintLog[i]) /\ lintLog[i].env.rm = "ok") =>
              ReportedLintFor(lintLog[i].filePath)
                = TagLint([filePath |-> lintLog[i].filePath,
                           issues |-> FormatMessages(lintLog[i].env.messages)])
  /\ (Done /\ request.type = "code" /\ lintLog # <<>> /\ LinterFailed(lintLog[1])
        /\ ScanReturned(<<>>)) =>
       /\ response.status = 200
       /\ response.data.lintIssues = <<>>

C5_Witness ==
  /\ Done /\ Collected /\ response.status = 200
  /\ \E p, q \in CollectedPaths :
       /\ LinterFailedFor(p) /\ p \in Range(response.data.processedFiles)
       /\ ReportedLintFor(p) = <<>>
       /\ q # p /\ ReportedLintFor(q) # <<>>

\* C6: every lintCode call that made its temporary directory has removed it
\* when the call ends, however it ends.
C6_LintTempDirAlwaysRemoved ==
  \A i \in DOMAIN lintLog : lintLog[i].created => ~lintLog[i].left

\* C7: a repository request whose content parseGitHubUrl rejects is answered
\* 400, and nothing is cloned and no clone directory is made.
C7_RejectedReferenceIs400 ==
  (Done /\ request.type = "repo" /\ request.content.kind = "string"
     /\ request.content.atoms # <<>> /\ ~parseGitHubUrl(request.content.atoms).ok) =>
    /\ response.status = 400
    /\ \A i \in DOMAIN fetchLog : ~fetchLog[i].cloned
    /\ cloneDirs.made = 0

ContentMissingOrEmpty(r) ==
  \/ r.content.kind = "absent"
  \/ r.content.kind = "string" /\ r.content.atoms = <<>>

NothingAnalysed ==
  /\ classifyLog = <<>> /\ lintLog = <<>> /\ scanLog = <<>> /\ advisorLog = <<>>
  /\ fetchLog = <<>> /\ lintDirs.made = 0 /\ cloneDirs.made = 0

\* C8: a request whose body yields no content or the empty string, whatever
\* its type, is answered 400 and nothing is classified, linted, scanned,
\* fetched or reviewed for it.
C8_NoContentIs400WithoutAnalysis ==
  (request.body \in {"object", "primitive"} /\ ContentMissingOrEmpty(request)) =>
    /\ NothingAnalysed
    /\ pc \in {"post", "done"}
    /\ Done => response.status = 400

C8_Witness ==
  /\ Done /\ request.body = "object" /\ request.type = "code"
  /\ request.content = Str(<<>>) /\ response.status = 400

BadShape(r) ==
  \/ r.body \in {"malformed", "null", "primitive"}
  \/ r.type \notin {"code", "repo"}
  \/ r.content.kind # "string"

\* C9: a request of bad shape (a body that is no JSON object, a type other than
\* "code" and "repo", content that is no string) is answered 400.
C9_BadShapeIs400 ==
  (Done /\ BadShape(request)) => response.status = 400

\* C10: a snippet the classifier takes for anything but py, js or jsx is
\* answered 400, and lintCode, the scan and the Advisor are not called.
C10_UnsupportedSnippetIs400 ==
  \A i \in DOMAIN classifyLog :
    (~classifyLog[i].threw /\ classifyLog[i].fileExt \notin {".py", ".js", ".jsx"}) =>
      /\ classifyLog[i].fileExt \in {".tsx", ".html", ".css"}
      /\ Done /\ response.status = 400
      /\ lintLog = <<>> /\ scanLog = <<>> /\ advisorLog = <<>>
      /\ lintDirs.made = 0

C10_Witness ==
  /\ Done /\ request.type = "code" /\ classifyLog # <<>>
  /\ classifyLog[1].fileExt = ".tsx" /\ response.status = 400


\* C11: when processRepository returns without throwing and with no file, the
\* request is answered 404, and neither lintCode nor scanForSecurityIssues nor
\* getAIReview has been called.
EmptyCollection ==
  /\ fetchLog # <<>>
  /\ ~fetchLog[1].threw
  /\ fetchLog[1].files = <<>>

C11_EmptyCollectionIs404WithoutAnalysis ==
  EmptyCollection =>
    /\ Done
    /\ response.status = 404
    /\ lintLog = <<>> /\ scanLog = <<>> /\ advisorLog = <<>>
    /\ files = <<>> /\ idx = 0

\* A clone whose tree holds a directory that is read, and no code file outside
\* the excluded directories.
C11_Witness ==
  /\ EmptyCollection
  /\ Done
  /\ Len(fetchLog[1].walked) > 1
  /\ response.status = 404


\* The issues the calls of a log returned, each tagged with its file, in call
\* order.
RECURSIVE LintOfLog(_)
LintOfLog(log) ==
  IF log = <<>> THEN <<>>
  ELSE (IF Head(log).threw THEN <<>> ELSE TagLint(Head(log))) \o LintOfLog(Tail(log))

RECURSIVE SecurityOfLog(_)
SecurityOfLog(log) ==
  IF log = <<>> THEN <<>>
  ELSE (IF Head(log).threw THEN <<>> ELSE TagSecurity(Head(log)))
       \o SecurityOfLog(Tail(log))

RECURSIVE CompletedOf(_)
CompletedOf(collected) ==
  IF collected = <<>> THEN <<>>
  ELSE (IF FileCompleted(Head(collected).filePath)
        THEN <<Head(collected).filePath>> ELSE <<>>) \o CompletedOf(Tail(collected))

AdvisorFailed == advisorLog # <<>> /\ advisorLog[Len(advisorLog)].env = "fail"

\* The report but for its advisory text is what lintCode, the scans and the
\* collection returned.
ReportFromAnalysis ==
  /\ response.status = 200
  /\ IF request.type = "code"
     THEN /\ response.data.lintIssues = lintLog[1].issues
          /\ response.data.securityIssues = scanLog[1].issues
          /\ response.fields = {"lintIssues", "securityIssues", "aiReview"}
     ELSE /\ response.data.lintIssues = LintOfLog(lintLog)
          /\ response.data.securityIssues = SecurityOfLog(scanLog)
          /\ response.data.fileCount = Len(files)
          /\ response.data.processedFiles = CompletedOf(files)
          /\ response.data.repositoryUrl = request.content.atoms

\* C12: a getAIReview call whose Advisor fails never fails the request: the
\* answer is a success whose lintIssues, securityIssues, fileCount and
\* processedFiles are what the analysis produced, exactly as when the Advisor
\* succeeds, and whose aiReview is the empty string.
C12_AdvisorFailureLeavesReport ==
  (Done /\ advisorLog # <<>>) =>
    /\ Len(advisorLog) = 1
    /\ ReportFromAnalysis
    /\ AdvisorFailed => response.data.aiReview = ""

\* A repository report with lint and security issues and a file that failed,
\* the Advisor having failed.
C12_Witness ==
  /\ Done /\ AdvisorFailed /\ request.type = "repo"
  /\ response.status = 200
  /\ response.data.lintIssues # <<>> /\ response.data.securityIssues # <<>>
  /\ Len(response.data.processedFiles) < response.data.fileCount
  /\ response.data.aiReview = ""


\* C13: lintCode is only ever called for a lintable extension (.js, .jsx, .ts,
\* .tsx), in the repository path and in the snippet path alike: never for .py.
C13_LintOnlyForLintable ==
  \A i \in DOMAIN lintLog : Lintable(lintLog[i].ext)


\* The items of x at the indices I, in the order of x.
RECURSIVE PickFrom(_, _, _)
PickFrom(x, I, i) ==
  IF i > Len(x) THEN <<>>
  ELSE (IF i \in I THEN <<x[i]>> ELSE <<>>) \o PickFrom(x, I, i + 1)

SameLintKey(a, b) == a.line = b.line /\ a.message = b.message

SameSecurityKey(a, b) == a.location = b.location /\ a.title = b.title

\* The indices of the first occurrence of each key.
FirstLint(x) == {i \in DOMAIN x : \A j \in 1..(i - 1) : ~SameLintKey(x[j], x[i])}

FirstSecurity(x) ==
  {i \in DOMAIN x : \A j \in 1..(i - 1) : ~SameSecurityKey(x[j], x[i])}

\* C14: the lists handleSubmit passes to setResults are the lists of the
\* response with exactly the first occurrence of each key kept, in the original
\* order: lint issues are merged iff line and message are equal, security
\* issues iff location and title are equal, whatever the file path and the
\* other fields.
C14_DedupeKeepsFirstOfEachKey ==
  client = "results" =>
    /\ shown.lintIssues =
         PickFrom(response.data.lintIssues, FirstLint(response.data.lintIssues), 1)
    /\ shown.securityIssues =
         PickFrom(response.data.securityIssues,
                  FirstSecurity(response.data.securityIssues), 1)

\* Issues of two files share a key and collapse into the one of the earlier
\* file, for lint issues and for security issues; two lint issues of one line
\* with different messages both survive.
C14_Witness ==
  /\ client = "results"
  /\ request.type = "repo"
  /\ \E i, j \in DOMAIN response.data.lintIssues :
       /\ i < j
       /\ SameLintKey(response.data.lintIssues[i], response.data.lintIssues[j])
       /\ response.data.lintIssues[i].filePath # response.data.lintIssues[j].filePath
       /\ response.data.lintIssues[i] \in Range(shown.lintIssues)
       /\ response.data.lintIssues[j] \notin Range(shown.lintIssues)
  /\ \E i, j \in DOMAIN response.data.securityIssues :
       /\ i < j
       /\ SameSecurityKey(response.data.securityIssues[i],
                          response.data.securityIssues[j])
       /\ response.data.securityIssues[i].filePath
            # response.data.securityIssues[j].filePath
       /\ response.data.securityIssues[i] \in Range(shown.securityIssues)
       /\ response.data.securityIssues[j] \notin Range(shown.securityIssues)
  /\ \E i, j \in DOMAIN shown.lintIssues :
       /\ i < j
       /\ shown.lintIssues[i].line = shown.lintIssues[j].line
       /\ shown.lintIssues[i].message # shown.lintIssues[j].message


\* a is b with some items left out.
RECURSIVE IsSubsequence(_, _)
IsSubsequence(a, b) ==
  IF a = <<>> THEN TRUE
  ELSE IF b = <<>> THEN FALSE
  ELSE IF Head(a) = Head(b) THEN IsSubsequence(Tail(a), Tail(b))
  ELSE IsSubsequence(a, Tail(b))

IdempotentOnLint(x) ==
  /\ UniqueLintIssues(UniqueLintIssues(x, <<>>), <<>>) = UniqueLintIssues(x, <<>>)
  /\ IsSubsequence(UniqueLintIssues(x, <<>>), x)

IdempotentOnSecurity(x) ==
  /\ UniqueSecurityIssues(UniqueSecurityIssues(x, <<>>), <<>>)
       = UniqueSecurityIssues(x, <<>>)
  /\ IsSubsequence(UniqueSecurityIssues(x, <<>>), x)

\* C15: on every list of lint issues and of security issues of a successful
\* response, reducing the reduced list again changes nothing, and the reduced
\* list is a subsequence of the list; the lists passed to setResults are such
\* reduced lists.
C15_DedupeIdempotentSubsequence ==
  (Done /\ response.status = 200) =>
    /\ IdempotentOnLint(response.data.lintIssues)
    /\ IdempotentOnSecurity(response.data.securityIssues)
    /\ client = "results" =>
         /\ UniqueLintIssues(shown.lintIssues, <<>>) = shown.lintIssues
         /\ UniqueSecurityIssues(shown.securityIssues, <<>>) = shown.securityIssues
         /\ IsSubsequence(shown.lintIssues, response.data.lintIssues)
         /\ IsSubsequence(shown.securityIssues, response.data.securityIssues)

\* Lists from which items were dropped, several surviving, the dropped ones
\* not at the end.
C15_Witness ==
  /\ client = "results"
  /\ Len(shown.lintIssues) >= 2
  /\ Len(shown.lintIssues) < Len(response.data.lintIssues)
  /\ shown.lintIssues # SubSeq(response.data.lintIssues, 1, Len(shown.lintIssues))
  /\ Len(shown.securityIssues) >= 2
  /\ Len(shown.securityIssues) < Len(response.data.securityIssues)
  /\ shown.securityIssues
       # SubSeq(response.data.securityIssues, 1, Len(shown.securityIssues))

\* C16 as stated: the report the endpoint returns for a successful request
\* holds no two lint issues with the same line and message and no two security
\* issues with the same location and title.
NoDuplicateKeys(lintIssues, securityIssues) ==
  /\ \A i, j \in DOMAIN lintIssues :
       SameLintKey(lintIssues[i], lintIssues[j]) => i = j
  /\ \A i, j \in DOMAIN securityIssues :
       SameSecurityKey(securityIssues[i], securityIssues[j]) => i = j

C16_EndpointReportHasNoDuplicates ==
  (Done /\ response.status = 200) =>
    NoDuplicateKeys(response.data.lintIssues, response.data.securityIssues)

\* What handleSubmit has passed to setResults, if anything: nothing unless the
\* endpoint answered 200 and the answer was received and read; the data passed
\* is the response's data with both lists reduced, so it holds no two lint
\* issues with the same line and message and no two security issues with the
\* same location and title.
ShownIsReducedReport ==
  /\ client \in {"json", "results"} => (Done /\ response.status = 200)
  /\ client # "results" => shown = NoFields
  /\ client = "results" =>
       /\ NoDuplicateKeys(shown.lintIssues, shown.securityIssues)
       /\ shown.lintIssues = UniqueLintIssues(response.data.lintIssues, <<>>)
       /\ shown.securityIssues =
            UniqueSecurityIssues(response.data.securityIssues, <<>>)
       /\ [shown EXCEPT !.lintIssues = <<>>, !.securityIssues = <<>>]
            = [response.data EXCEPT !.lintIssues = <<>>, !.securityIssues = <<>>]

\* C16, amended: the endpoint does not reduce its lists; they are reduced by
\* handleSubmit, at most once per request, in the step in which response.json()
\* has resolved and before the data is passed to setResults, and only the data
\* passed to setResults is free of duplicates.  When fetch or response.json()
\* rejects, or nothing was entered, nothing is reduced and no results are set.
C16_ShownReportHasNoDuplicates ==
  /\ []ShownIsReducedReport
  /\ [][(shown' # shown \/ client' = "results") =>
          (client = "json" /\ client' = "results" /\ shown = NoFields)]_vars

\* A snippet whose one line matches a rule twice: the endpoint reports two
\* findings with one key, setResults receives one.
C16_Witness ==
  /\ client = "results"
  /\ request.type = "code"
  /\ Len(response.data.securityIssues) = 2
  /\ Len(shown.securityIssues) = 1
  /\ ~NoDuplicateKeys(response.data.lintIssues, response.data.securityIssues)


\* C17: once processRepository has returned or thrown (the clone failed, the
\* directory walk failed, or the files were collected), the clone directory it
\* made is removed: no clone directory is left behind.
C17_CloneDirAlwaysRemoved ==
  /\ fetchLog # <<>> => cloneDirs.left = 0
  /\ ~Collecting => cloneDirs.left = 0


\* No directory of the path p has a name of the exclusion list.
OutsideExcluded(p) == \A k \in 1..(Len(p) - 1) : p[k] \notin ExcludedDirs

\* C18: the files processRepository returns never lie under a directory, at
\* any depth, whose name is in the exclusion list, and no such directory is read;
\* every returned file has one of the extensions .js, .jsx, .py (lower-cased)
\* and is keyed by its path relative to the clone directory.
C18_CollectorSkipsExcludedDirs ==
  /\ (pc = "repoRm" /\ repoEnv.readdir = "ok") =>
       \E r \in {processRepository(RepoUrl, repoEnv)} :
         \A j \in DOMAIN r.files : r.files[j].filePath \in Range(repoEnv.tree)
  /\ \A n \in DOMAIN fetchLog :
    ~fetchLog[n].threw =>
      /\ \A j \in DOMAIN fetchLog[n].files :
           LET p == fetchLog[n].files[j].filePath
           IN /\ OutsideExcluded(p)
              /\ ToLowerCase(ExtName(p[Len(p)])) \in {".js", ".jsx", ".py"}
              /\ \A k \in DOMAIN fetchLog[n].files :
                   fetchLog[n].files[k].filePath = p => k = j
      /\ \A j \in DOMAIN fetchLog[n].walked :
           LET d == fetchLog[n].walked[j]
           IN /\ IsPrefix(RepoDir, d)
              /\ \A k \in (Len(RepoDir) + 1)..Len(d) : d[k] \notin ExcludedDirs

\* The clone holds a code file in an excluded directory of the root and one
\* in an excluded directory below src; src is read and its other file is the
\* one processRepository is about to return.
C18_Witness ==
  /\ pc = "repoRm" /\ repoEnv.readdir = "ok"
  /\ <<"node_modules", "d.js">> \in Range(repoEnv.tree)
  /\ <<"src", "build", "g.js">> \in Range(repoEnv.tree)
  /\ repoEnv.unreadable = {}
  /\ \E r \in {processRepository(RepoUrl, repoEnv)} :
       {r.files[j].filePath : j \in DOMAIN r.files} = {<<"src", "C.JSX">>}
  /\ RepoDir \o <<"src">> \in Range(WalkedDirs(repoEnv.tree, RepoDir))


\* The collected files are a.py and b.js, both analysed to completion.
TwoFileRepository ==
  /\ Done /\ request.type = "repo" /\ response.status = 200
  /\ Len(files) = 2
  /\ files[1] = [filePath |-> <<"a.py">>, content |-> <<"os.system(c)">>]
  /\ files[2] = [filePath |-> <<"b.js">>, content |-> <<"el.innerHTML = s;">>]
  /\ response.data.processedFiles = << <<"a.py">>, <<"b.js">> >>

\* C19: for a repository whose collected files are a.py, matching only the
\* os.system rule, and b.js, matching only the innerHTML rule, the report holds
\* exactly two security findings: the os.system finding with filePath a.py and
\* the innerHTML finding with filePath b.js, and neither rule reports for the
\* other file.
C19_TwoFilesTwoFindings ==
  TwoFileRepository =>
    /\ response.data.securityIssues =
         << [title |-> "Dangerous system command execution",
             location |-> <<"Line", 1>>, filePath |-> <<"a.py">>],
            [title |-> "Potential XSS vulnerability",
             location |-> <<"Line", 1>>, filePath |-> <<"b.js">>] >>
    /\ response.data.fileCount = 2
    /\ client = "results" => shown.securityIssues = response.data.securityIssues
    /\ \A i \in DOMAIN scanLog :
         /\ scanLog[i].filePath = <<"a.py">> =>
              \A k \in DOMAIN scanLog[i].issues :
                 scanLog[i].issues[k].title # "Potential XSS vulnerability"
         /\ scanLog[i].filePath = <<"b.js">> =>
              \A k \in DOMAIN scanLog[i].issues :
                 scanLog[i].issues[k].title # "Dangerous system command execution"

C19_Witness ==
  /\ TwoFileRepository
  /\ Len(scanLog) = 2
  /\ Len(response.data.securityIssues) = 2
  /\ response.data.securityIssues[1].filePath = <<"a.py">>
  /\ response.data.securityIssues[2].filePath = <<"b.js">>


SnippetSucceeded == Done /\ request.type = "code" /\ response.status = 200

\* C20 as stated: the report of a successful snippet request carries
\* fileCount = 1.
C20_SnippetReportFileCountOne ==
  SnippetSucceeded =>
    /\ "fileCount" \in response.fields
    /\ response.data.fileCount = 1

\* C20, amended: the report of a successful snippet request carries no
\* fileCount: its fields are exactly lintIssues, securityIssues and aiReview,
\* the results of one lintCode call, one scan and one getAIReview call on the
\* one snippet.
C20_SnippetReportHasNoFileCount ==
  SnippetSucceeded =>
    /\ response.fields = {"lintIssues", "securityIssues", "aiReview"}
    /\ Len(classifyLog) = 1 /\ Len(lintLog) = 1 /\ Len(scanLog) = 1
    /\ Len(advisorLog) = 1
    /\ advisorLog[1].input = << [filePath |-> <<>>, content |-> request.content.atoms] >>
    /\ fetchLog = <<>>

C20_Witness ==
  /\ SnippetSucceeded
  /\ "fileCount" \notin response.fields
  /\ response.data.lintIssues # <<>>
  /\ response.data.securityIssues # <<>>
  /\ response.data.aiReview = "review"


\* The number of matches of pattern r in the code.
RECURSIVE MatchesIn(_, _)
MatchesIn(code, r) ==
  IF code = <<>> THEN 0 ELSE MatchCount(r, Head(code)) + MatchesIn(Tail(code), r)

\* The catalog position of the rule with this title.
RuleOf(title) == CHOOSE r \in DOMAIN securityPatterns : securityPatterns[r].title = title

FindingsOfRule(issues, r) ==
  Cardinality({k \in DOMAIN issues : issues[k].title = securityPatterns[r].title})

\* C21: a scan that returned reports, for every rule that applies to the file
\* type, as many findings as the rule's pattern has matches in the code (none
\* when it has none) and none for the other rules; the findings follow the
\* catalog order of their rules, and within a rule the order of the matches.
C21_OneFindingPerMatchInCatalogOrder ==
  \A n \in DOMAIN scanLog :
    ~scanLog[n].threw =>
      LET issues == scanLog[n].issues
          code == scanLog[n].code
          fileType == StripDot(scanLog[n].ext)
      IN /\ \A r \in DOMAIN securityPatterns :
              FindingsOfRule(issues, r) =
                IF fileType \in securityPatterns[r].languages
                THEN MatchesIn(code, r) ELSE 0
         /\ \A k \in DOMAIN issues :
              \E r \in DOMAIN securityPatterns : issues[k].title = securityPatterns[r].title
         /\ \A k, l \in DOMAIN issues :
              k < l =>
                /\ RuleOf(issues[k].title) <= RuleOf(issues[l].title)
                /\ issues[k].title = issues[l].title =>
                     issues[k].location[2] <= issues[l].location[2]

\* A scan of code with two matches of one rule and a match of a later rule.
C21_Witness ==
  \E n \in DOMAIN scanLog :
    /\ ~scanLog[n].threw
    /\ \E r \in DOMAIN securityPatterns :
         /\ MatchesIn(scanLog[n].code, r) = 2
         /\ FindingsOfRule(scanLog[n].issues, r) = 2
    /\ Cardinality({scanLog[n].issues[k].title : k \in DOMAIN scanLog[n].issues}) >= 2


\* Newline characters strictly before atom i of the code.
RECURSIVE NewlinesBefore(_, _)
NewlinesBefore(code, i) ==
  IF i <= 1 THEN 0
  ELSE (IF code[i - 1] = "\n" THEN 1 ELSE 0) + NewlinesBefore(code, i - 1)

\* "Line N" for each match of pattern r from atom i on, in match order.
RECURSIVE LinesOfMatches(_, _, _)
LinesOfMatches(code, r, i) ==
  IF i > Len(code) THEN <<>>
  ELSE Repeat(<<"Line", NewlinesBefore(code, i) + 1>>, MatchCount(r, code[i]))
       \o LinesOfMatches(code, r, i + 1)

\* The locations of the findings with this title, in order.
RECURSIVE LocationsOf(_, _)
LocationsOf(issues, title) ==
  IF issues = <<>> THEN <<>>
  ELSE (IF Head(issues).title = title THEN <<Head(issues).location>> ELSE <<>>)
       \o LocationsOf(Tail(issues), title)

\* C22: the location of every finding of a scan is "Line N" with N one plus
\* the number of newline characters strictly before the match; N is at least 1,
\* and a match with no newline before it is reported at Line 1.
C22_LocationIsLineOfMatch ==
  \A n \in DOMAIN scanLog :
    ~scanLog[n].threw =>
      /\ \A r \in DOMAIN securityPatterns :
           StripDot(scanLog[n].ext) \in securityPatterns[r].languages =>
             LocationsOf(scanLog[n].issues, securityPatterns[r].title)
               = LinesOfMatches(scanLog[n].code, r, 1)
      /\ \A k \in DOMAIN scanLog[n].issues :
           /\ Len(scanLog[n].issues[k].location) = 2
           /\ scanLog[n].issues[k].location[1] = "Line"
           /\ scanLog[n].issues[k].location[2] >= 1
           /\ scanLog[n].issues[k].location[2]
                <= 1 + Cardinality({j \in DOMAIN scanLog[n].code : scanLog[n].code[j] = "\n"})

\* A scan with a finding on the first line and findings on later lines.
C22_Witness ==
  \E n \in DOMAIN scanLog :
    /\ ~scanLog[n].threw
    /\ \E k, l \in DOMAIN scanLog[n].issues :
         /\ scanLog[n].issues[k].location = <<"Line", 1>>
         /\ scanLog[n].issues[l].location = <<"Line", 3>>


\* The issues a call of the log returned for file p, each with filePath p
\* added; none when there was no call or the call threw.
IssuesFor(log, p) ==
  IF \E n \in DOMAIN log : log[n].filePath = p /\ ~log[n].threw
  THEN LET n == CHOOSE n \in DOMAIN log : log[n].filePath = p /\ ~log[n].threw
       IN [k \in DOMAIN log[n].issues |-> log[n].issues[k] @@ [filePath |-> p]]
  ELSE <<>>

\* The issues of the collected files, file after file in collection order.
RECURSIVE InCollectionOrder(_, _)
InCollectionOrder(log, collected) ==
  IF collected = <<>> THEN <<>>
  ELSE IssuesFor(log, Head(collected).filePath)
       \o InCollectionOrder(log, Tail(collected))

\* C23: in a repository report lintIssues and securityIssues are the issues
\* lintCode and the scan returned for each collected file, concatenated in
\* collection order, each file's issues in the order they were returned and
\* each issue tagged with the path of its file.
C23_IssuesInCollectionOrder ==
  (Done /\ request.type = "repo" /\ response.status = 200) =>
    /\ response.data.lintIssues = InCollectionOrder(lintLog, files)
    /\ response.data.securityIssues = InCollectionOrder(scanLog, files)

\* Three files with security issues, the last with several, two of them with
\* lint issues.
C23_Witness ==
  /\ Done /\ request.type = "repo" /\ response.status = 200
  /\ Cardinality({response.data.securityIssues[k].filePath :
                    k \in DOMAIN response.data.securityIssues}) = 3
  /\ Cardinality({response.data.lintIssues[k].filePath :
                    k \in DOMAIN response.data.lintIssues}) = 2
  /\ Len(response.data.securityIssues) >= 5
  /\ \E k \in DOMAIN response.data.lintIssues :
       k > 1 /\ response.data.lintIssues[k].filePath
                  = response.data.lintIssues[k - 1].filePath


\* The collected files j to m, each after a marker naming its path, with a
\* blank line between two files.
RECURSIVE MarkedFiles(_, _)
MarkedFiles(j, m) ==
  IF j > m THEN <<>>
  ELSE <<"// File: ">> \o PathString(files[j].filePath) \o <<"\n\n">>
       \o files[j].content
       \o (IF j < m THEN <<"\n\n">> \o MarkedFiles(j + 1, m) ELSE <<>>)

\* C24: for a successful repository request getAIReview is called exactly
\* once, with the first min(3, n) collected files in collection order, each after
\* a marker naming its path, whether or not those files failed in the per-file
\* loop; no file beyond the third is sent.
C24_AdvisorGetsFirstThreeFiles ==
  (Done /\ request.type = "repo" /\ response.status = 200) =>
    LET n == Len(files)
        m == IF n < 3 THEN n ELSE 3
    IN /\ Len(advisorLog) = 1
       /\ advisorLog[1].text = MarkedFiles(1, m)
       /\ Cardinality({k \in DOMAIN advisorLog[1].text :
                         advisorLog[1].text[k] = "// File: "}) = m
       /\ Len(advisorLog[1].input) = m
       /\ \A j \in 1..m : advisorLog[1].input[j] = files[j]

\* Four files were collected, one of the first three failed in the loop and
\* is in the sample, the fourth is not.
C24_Witness ==
  /\ Done /\ request.type = "repo" /\ response.status = 200
  /\ Len(files) = 4
  /\ Len(advisorLog) = 1
  /\ \E j \in 1..3 :
       /\ files[j].filePath \notin Range(response.data.processedFiles)
       /\ advisorLog[1].input[j] = files[j]
  /\ \A j \in DOMAIN advisorLog[1].input : advisorLog[1].input[j] # files[4]
  /\ Len(advisorLog[1].text) > 9


\* The marker classes of the classifier, on code c.
ComponentMarker(c) ==
  \E a \in Range(c) :
    AtomMarkers(a) \cap {"import React", "ReactDOM.render"} # {}
    \/ ("extends React.Component" \in AtomMarkers(a)
        /\ \E b \in Range(c) : "class" \in AtomMarkers(b))

ScriptMarker(c) ==
  \E a \in Range(c) : AtomMarkers(a) \cap {"function", "=>", "const", "let", "var"} # {}

MarkupMarker(c) ==
  \E a \in Range(c) : AtomMarkers(a) \cap {"<!DOCTYPE html>", "<html>"} # {}

StylesheetMarker(c) ==
  \/ \E a \in Range(c) : "@import" \in AtomMarkers(a)
  \/ /\ \E a \in Range(c) : "{}" \in AtomMarkers(a)
     /\ \E a \in Range(c) : ";" \in AtomMarkers(a)

PythonMarker(c) ==
  \E a \in Range(c) : AtomMarkers(a) \cap {"def ", "import ", "class "} # {}

\* C25: on every string guessFileExtension returns one of .jsx, .tsx, .js,
\* .html, .css, .py, namely the answer of the first check that matches in the
\* order component markers, script markers, markup markers, stylesheet markers,
\* Python markers, and .js when none matches; code with a script marker and a
\* Python marker is .js.
C25_ClassifierFirstMatchWins ==
  \A n \in DOMAIN classifyLog :
    (~classifyLog[n].threw /\ request.content.kind = "string") =>
      LET c == request.content.atoms
          ext == classifyLog[n].fileExt
      IN /\ ext \in {".jsx", ".tsx", ".js", ".html", ".css", ".py"}
         /\ ComponentMarker(c) =>
              /\ ext \in {".jsx", ".tsx"}
              /\ ext = ".tsx" <=> \E a \in Range(c) : "tsx" \in AtomMarkers(a)
         /\ (~ComponentMarker(c) /\ ScriptMarker(c)) => ext = ".js"
         /\ (~ComponentMarker(c) /\ ~ScriptMarker(c) /\ MarkupMarker(c)) => ext = ".html"
         /\ (~ComponentMarker(c) /\ ~ScriptMarker(c) /\ ~MarkupMarker(c)
               /\ StylesheetMarker(c)) => ext = ".css"
         /\ (~ComponentMarker(c) /\ ~ScriptMarker(c) /\ ~MarkupMarker(c)
               /\ ~StylesheetMarker(c) /\ PythonMarker(c)) => ext = ".py"
         /\ (~ComponentMarker(c) /\ ~ScriptMarker(c) /\ ~MarkupMarker(c)
               /\ ~StylesheetMarker(c) /\ ~PythonMarker(c)) => ext = ".js"

\* Code with a script marker and a Python marker, classified .js.
C25_Witness ==
  /\ classifyLog # <<>> /\ ~classifyLog[1].threw
  /\ request.content.kind = "string"
  /\ ScriptMarker(request.content.atoms) /\ PythonMarker(request.content.atoms)
  /\ ~ComponentMarker(request.content.atoms)
  /\ classifyLog[1].fileExt = ".js"


\* C26: no scan writes the catalog: the lastIndex of every pattern is what it
\* was at startup after any sequence of scans, so scanning the code of an
\* earlier scan again, after whatever scans followed it, returns the findings
\* that scan returned.
C26_CatalogNeverMutated ==
  /\ lastIndex = [r \in DOMAIN securityPatterns |-> 0]
  /\ \A n \in DOMAIN scanLog :
       ~scanLog[n].threw =>
         scanForSecurityIssues(scanLog[n].code, scanLog[n].ext) = scanLog[n].issues

\* Three scans, the first and the last with a match of the same pattern.
C26_Witness ==
  /\ Len(scanLog) >= 3
  /\ \A n \in DOMAIN scanLog : ~scanLog[n].threw
  /\ \E r \in DOMAIN securityPatterns :
       /\ FindingsOfRule(scanLog[1].issues, r) >= 1
       /\ FindingsOfRule(scanLog[Len(scanLog)].issues, r) >= 2
  /\ lastIndex = [r \in DOMAIN securityPatterns |-> 0]


\* C27: in a repository report every lint issue and every security issue has
\* a filePath that is in processedFiles: a file whose iteration threw part-way
\* contributes no issue.
C27_IssuesOnlyFromProcessedFiles ==
  (Done /\ request.type = "repo" /\ response.status = 200) =>
    /\ \A k \in DOMAIN response.data.lintIssues :
         response.data.lintIssues[k].filePath \in Range(response.data.processedFiles)
    /\ \A k \in DOMAIN response.data.securityIssues :
         response.data.securityIssues[k].filePath
           \in Range(response.data.processedFiles)
    /\ \A p \in CollectedPaths : FileThrew(p) => NoFindingsFor(p)

\* A file below src whose lintCode threw holds text a rule matches and is in
\* no issue; another file has lint issues and security issues.
C27_Witness ==
  /\ Done /\ request.type = "repo" /\ response.status = 200
  /\ \E j \in DOMAIN files :
       /\ FileThrew(files[j].filePath)
       /\ Len(files[j].filePath) > 1
       /\ scanForSecurityIssues(files[j].content, FileExtOf(files[j].filePath)) # <<>>
       /\ files[j].filePath \notin Range(response.data.processedFiles)
  /\ response.data.lintIssues # <<>>
  /\ response.data.securityIssues # <<>>


\* Wherever the handler is suspended, it has a step for every way the awaited
\* promise can settle; between awaits it has a step.
EveryOutcomeHasStep ==
  /\ pc = "post" => ENABLED HandlerStep
  /\ pc = "files" => ENABLED (ProcessFile \/ PostRepoFinish)
  /\ pc = "mkdir" => \A outcome \in Settled : ENABLED LintMkdirOn(outcome)
  /\ pc = "writeFile" =>
       \A outcome \in WriteFileOutcomes(LintedCode) : ENABLED LintWriteFileOn(outcome)
  /\ pc = "lintFiles" => \A outcome \in LintFilesOutcomes : ENABLED LintFilesOn(outcome)
  /\ pc = "rm" => \A outcome \in Settled : ENABLED LintRmOn(outcome)
  /\ pc = "rmCatch" => \A outcome \in Settled : ENABLED LintRmCatchOn(outcome)
  /\ pc = "advisor" => \A advisor \in AdvisorEnvs : ENABLED AdvisorAnswersOn(advisor)
  /\ pc = "cloneMkdir" => \A outcome \in Settled : ENABLED CloneMkdirOn(outcome)
  /\ pc = "clone" => \A outcome \in GitCloneOutcomes : ENABLED GitCloneOn(outcome)
  /\ pc = "cloneRm" => \A outcome \in Settled : ENABLED CloneRmOn(outcome)
  /\ pc = "readdir" => \A outcome \in Settled : ENABLED ReaddirOn(outcome)
  /\ pc = "readFile" => \A outcome \in Settled : ENABLED ReadFileOn(outcome)
  /\ pc = "repoRm" => \A outcome \in Settled : ENABLED RepoRmOn(outcome)

\* While the handler has not answered it has a next step whatever happens, so
\* no exception leaves it; an answer has status 200, 400, 404 or 500 and ends
\* the handler; a processRepository that threw is answered 500.
HandlerAnswers ==
  /\ pc = "idle" \/ pc = "post" \/ Collecting \/ Analysing \/ Done
  /\ (pc = "post" \/ Collecting \/ Analysing) => response = NoResponse
  /\ EveryOutcomeHasStep
  /\ pc = "idle" => response = NoResponse
  /\ Done => response.status \in {200, 400, 404, 500}
  /\ \A n \in DOMAIN fetchLog :
       fetchLog[n].threw => (Done /\ response.status = 500)

\* Every promise the handler awaits settles and the handler is resumed.
FairSpec == Spec /\ WF_vars(HandlerStep)

\* C28: the handler never throws and answers every request exactly once, with
\* status 200, 400, 404 or 500, whatever the classifier, the Linter, the
\* collection, the per-file analysis and the Advisor do: until it answers it
\* has a next step for every outcome of what it awaits, every request received
\* is answered, an answer once sent is never replaced or followed by another
\* handler step, and a failed clone or directory walk is answered 500.
C28_ExactlyOneResponse ==
  /\ []HandlerAnswers
  /\ [][response # NoResponse =>
          (response' = response /\ pc' = pc /\ ~HandlerStep)]_vars
  /\ (pc = "post") ~> Done

\* git clone or the directory walk failed.
C28_Witness ==
  /\ Done
  /\ fetchLog # <<>> /\ fetchLog[1].threw /\ fetchLog[1].cloned
  /\ cloneDirs.made = 1
  /\ response.status = 500
  /\ response.data.error = "Error processing repository"

====
